---- MODULE Spec2Model ----
(***************************************************************************)
(* SpineLayout (src/unnamed/part_004): the animation registry, the state   *)
(* groups, the per-rig track bookkeeping and the playback engine.  Clip    *)
(* names are sequences of one-character strings, so that the name codec    *)
(* (includes / split / startsWith / the "next" regular expression) is      *)
(* computed on the characters as the code computes it.                     *)
(*                                                                         *)
(* JavaScript scheduling: a call of the API or an event of the runtime is  *)
(* one macrotask; the promise reactions it leaves behind (the .then of a   *)
(* play's promise, the continuation of playAnimationsQueue after an await) *)
(* are microtasks, which all run before the next macrotask.  The model has *)
(* one action per macrotask and one per reaction with a side effect; the   *)
(* macrotask actions are disabled while a reaction is pending.             *)
(***************************************************************************)
EXTENDS Naturals, Sequences, FiniteSets, TLC

---------------------------------------------------------------------------
(* String primitives of the JavaScript runtime, on character sequences. *)

Min(S) == CHOOSE x \in S : \A y \in S : x <= y

\* s has sub at position i (1-based)
matchAt(s, sub, i) ==
    /\ i >= 1
    /\ i + Len(sub) - 1 <= Len(s)
    /\ SubSeq(s, i, i + Len(sub) - 1) = sub

\* String.prototype.indexOf, 1-based; 0 when sub does not occur
indexOf(s, sub) ==
    LET hits == {i \in 1..(Len(s) + 1) : matchAt(s, sub, i)}
    IN  IF hits = {} THEN 0 ELSE Min(hits)

\* String.prototype.includes
includes(s, sub) == indexOf(s, sub) # 0

\* String.prototype.startsWith
startsWith(s, sub) == matchAt(s, sub, 1)

\* s.split(sub)[0] for a non-empty separator: the text before its first occurrence
splitHead(s, sub) ==
    IF includes(s, sub) THEN SubSeq(s, 1, indexOf(s, sub) - 1) ELSE s

\* s.replace(sub, '') with a string pattern: the first occurrence is removed
replaceFirst(s, sub) ==
    IF includes(s, sub)
    THEN SubSeq(s, 1, indexOf(s, sub) - 1)
         \o SubSeq(s, indexOf(s, sub) + Len(sub), Len(s))
    ELSE s

\* the characters the regular expression class \w accepts, among those in use
WordChars ==
    {"a", "b", "d", "e", "g", "h", "i", "j", "k", "l", "m", "n", "o", "p",
     "r", "s", "t", "u", "w", "x", "X", "Y", "2", "_"}

\* length of the longest run of \w characters of s that starts at position i
RECURSIVE wordRun(_, _)
wordRun(s, i) ==
    IF i <= Len(s) /\ s[i] \in WordChars THEN 1 + wordRun(s, i + 1) ELSE 0

---------------------------------------------------------------------------
(* The naming conventions. *)

slotPointers ==
    [spine |-> <<"s", "p", "i", "n", "e", "_">>, text |-> <<"t", "e", "x", "t", "_">>]

folderPointers == [state |-> <<"s", "t", "a", "t", "e", "_">>]

\* Object.values(modificators), in declaration order
modificators ==
    << <<"_", "n", "e", "x", "t">>,
       <<"_", "l", "o", "o", "p">>,
       <<"_", "s", "p", "e", "e", "d", "_">>,
       <<"_", "s", "p", "e", "e", "d", "X", "_">>,
       <<"_", "s", "p", "e", "e", "d", "Y", "_">> >>

modNext == modificators[1]
modLoop == modificators[2]

\* Object.values(modificators).find(mod => animationName.includes(mod)); split(mod)[0]
stripModificators(animationName) ==
    LET found == {k \in 1..Len(modificators) : includes(animationName, modificators[k])}
    IN  IF found # {}
        THEN splitHead(animationName, modificators[Min(found)])
        ELSE animationName

\* animationName.split('/')[0], then 'state_' removed when it starts with it;
\* <<>> stands for both undefined and the empty string (both falsy)
getStateName(animationName) ==
    LET head == splitHead(animationName, <<"/">>)
    IN  IF startsWith(head, folderPointers.state)
        THEN replaceFirst(head, folderPointers.state)
        ELSE <<>>

\* animation.match(/next_(\w+)_?/)?.[1]: the leftmost "next_" that a \w follows,
\* and the longest run of \w after it (\w+ is greedy and takes every "_" too);
\* <<>> stands for undefined
nextRegex(animation) ==
    LET pat  == <<"n", "e", "x", "t", "_">>
        hits == {i \in 1..Len(animation) :
                    matchAt(animation, pat, i) /\ wordRun(animation, i + 5) > 0}
    IN  IF hits = {} THEN <<>>
        ELSE SubSeq(animation, Min(hits) + 5,
                    Min(hits) + 4 + wordRun(animation, Min(hits) + 5))

\* the value of `nextAnimation` after lines 225-235
parseNext(animation) ==
    IF includes(animation, modNext) THEN nextRegex(animation) ELSE <<>>

\* (mutant) no clip loops
loopFlagNever(animation) == FALSE

\* `loop` of line 246
loopFlag(animation) == includes(animation, modLoop)

---------------------------------------------------------------------------
(* The rigs that can be ingested: spineID and the animation names of the   *)
(* skeleton data, in the skeleton's order.                                 *)

walk           == <<"w", "a", "l", "k">>
walk_loop      == <<"w", "a", "l", "k", "_", "l", "o", "o", "p">>
jump_next_walk == <<"j", "u", "m", "p", "_", "n", "e", "x", "t", "_", "w", "a", "l", "k">>
intro_a        == <<"s", "t", "a", "t", "e", "_", "i", "n", "t", "r", "o", "/", "a">>
intro_b        == <<"s", "t", "a", "t", "e", "_", "i", "n", "t", "r", "o", "/", "b">>
intro          == <<"i", "n", "t", "r", "o">>
state_intro    == <<"s", "t", "a", "t", "e", "_", "i", "n", "t", "r", "o">>
state_         == <<"s", "t", "a", "t", "e", "_">>
jump           == <<"j", "u", "m", "p">>

walk_loop_next_jump ==
    <<"w", "a", "l", "k", "_", "l", "o", "o", "p", "_", "n", "e", "x", "t", "_",
      "j", "u", "m", "p">>
state_x == <<"s", "t", "a", "t", "e", "_", "/", "x">>

\* slot names of the skeletons
spine_B == <<"s", "p", "i", "n", "e", "_", "B">>
spine_G == <<"s", "p", "i", "n", "e", "_", "G">>
text_t  == <<"t", "e", "x", "t", "_", "t">>
body    == <<"b", "o", "d", "y">>

SpineID == {"A", "B", "C", "D"}

\* iteration order of a Map keyed by spineID (per-rig bookkeeping makes the
\* order across rigs immaterial)
SpineOrder == <<"A", "B", "C", "D">>

\* a rig as createInstanceFromData receives it: the id the atlas text gives
\* (line 114), the animation and slot names of the skeleton, and whether
\* data.textures has a texture for every page of the atlas
DataA == [spineID |-> "A", animations |-> <<walk_loop, intro_a, intro_b>>,
          slots |-> <<body, spine_B, spine_G, text_t>>, textures |-> TRUE]
DataB == [spineID |-> "B", animations |-> <<walk, jump_next_walk>>,
          slots |-> <<body>>, textures |-> TRUE]
\* a second rig with a socket for rig B
DataC == [spineID |-> "C", animations |-> <<walk_loop_next_jump, state_x>>,
          slots |-> <<spine_B>>, textures |-> TRUE]
\* a rig whose atlas has a page without a texture
DataD == [spineID |-> "D", animations |-> <<walk>>,
          slots |-> <<body>>, textures |-> FALSE]
\* rig B reloaded with another skeleton
DataB2 == [spineID |-> "B", animations |-> <<jump>>,
           slots |-> <<body>>, textures |-> TRUE]

\* the rigs of the manifest the layout is constructed with, in its order
Manifest == <<DataA, DataB>>

\* the rig data createInstanceFromData is called with later on (a reload)
RigData == {DataA}

\* bound of the exploration: the calls of the API made after construction
MaxCalls == 3

---------------------------------------------------------------------------
(* Map<K, V> as a function on the keys present. *)

EmptyMap == [x \in {} |-> 0]

mapSet(m, k, v) == [x \in DOMAIN m \cup {k} |-> IF x = k THEN v ELSE m[x]]

mapDelete(m, k) == [x \in DOMAIN m \ {k} |-> m[x]]

\* this.<registry>.get(spineID) ?? new Map()
tracksOf(reg, spineID) == IF spineID \in DOMAIN reg THEN reg[spineID] ELSE EmptyMap

\* this.<registry>.get(spineID)?.size || 0
sizeOf(reg, spineID) == Cardinality(DOMAIN tracksOf(reg, spineID))

\* the truthiness of this.<registry>.get(spineID)?.get(animation):
\* undefined and the number 0 are both falsy
truthyTrack(reg, spineID, animation) ==
    /\ animation \in DOMAIN tracksOf(reg, spineID)
    /\ tracksOf(reg, spineID)[animation] # 0

removeActiveAnimation(reg, spineID, animation) ==
    IF animation \in DOMAIN tracksOf(reg, spineID)
    THEN mapSet(reg, spineID, mapDelete(reg[spineID], animation))
    ELSE reg

addActiveAnimation(reg, spineID, animation, trackID) ==
    mapSet(reg, spineID, mapSet(tracksOf(reg, spineID), animation, trackID))

addLoopingAnimation(reg, spineID, animation, trackID) ==
    mapSet(reg, spineID, mapSet(tracksOf(reg, spineID), animation, trackID))

\* (mutant) the bookkeeping of the whole rig is dropped
removeLoopingAnimationOfRig(reg, spineID, animation) ==
    [x \in DOMAIN reg \ {spineID} |-> reg[x]]

removeLoopingAnimation(reg, spineID, animation) ==
    IF animation \in DOMAIN tracksOf(reg, spineID)
    THEN mapSet(reg, spineID, mapDelete(reg[spineID], animation))
    ELSE reg

---------------------------------------------------------------------------
(* The state of a SpineLayout and of the skeletal runtime behind it.
   spines             Map<SpineID, Spine>: the live instance of each rig, as
                      the number of the instance (instances are numbered in
                      creation order)
   instances          how many instances were created so far
   animations         Map<base name, Map<SpineID, raw names[]>>
   statesAnimations   Map<state name, base names[]>
   activeAnimations   Map<SpineID, Map<raw name, trackID>> (one-shot)
   loopingAnimations  Map<SpineID, Map<raw name, trackID>>
   tracks             the runtime: per live rig, the entry each track holds,
                      [animation, loop, done, by]; `by` is the play that set it
   plays              one record per playInstanceAnimation call that reached
                      line 273: its listener on the instance's AnimationState
                      (never removed) and its promise; `fired` tells that the
                      listener ran, `status` what became of the track entry
                      the call set ("playing", "completed", "cleared" by a
                      stop of that clip or of all, "displaced" by a call
                      about another clip that took or cleared its track,
                      "destroyed" with the instance)
   tasks              the top-level playState / playAnimationByName calls
                      and their promises; `pairs` are the (spineID, raw name)
                      pairs registered under the name when the call was made,
                      `calls` counts the playInstanceAnimation calls it made
   queue              the playAnimationsQueue call in flight
   lastCall           the API call made by the previous step, when it was
                      playInstanceAnimation
   calls              how many API calls were made so far
   slots              per live rig, the slot names of its skeleton data
   parent             the scene graph: for every node (a spine instance or a
                      Text) its parent: none, the layout itself ("scene") or
                      a slot of a spine instance
   texts              Map<text key, Text>
   raw, decoded       the name codec on its own: a raw animation name and the
                      results of stripping it, then stripping the result
   parsed             the next animation read from the raw name
   files              the asset files at hand: for each file name, the bundle
                      of the manifest that lists it
   spinesMap          what getSpineAssetsFromManifest returned for them
   loadedSpines       the file sets loadSpines loaded from them
   fsc                the FileSystemController of the layout editor, the
                      folder it watches and its polling loops
   preloader          the Preloader, the asset system it initialises and its
                      calls under way
   sounds             the Sounds controller, the global mute switch of the
                      audio library and the visibility of the document       *)
VARIABLES spines, instances, animations, statesAnimations,
          activeAnimations, loopingAnimations, tracks, plays, tasks, queue,
          lastCall, calls, slots, parent, texts, raw, decoded, parsed,
          files, spinesMap, loadedSpines, fsc, preloader, sounds

vars == <<spines, instances, animations, statesAnimations,
          activeAnimations, loopingAnimations, tracks, plays, tasks, queue,
          lastCall, calls, slots, parent, texts, raw, decoded, parsed,
          files, spinesMap, loadedSpines, fsc, preloader, sounds>>

sceneVars == <<slots, parent, texts>>
codecVars == <<raw, decoded, parsed>>
assetVars == <<files, spinesMap, loadedSpines>>
toolVars == <<fsc, preloader, sounds>>

\* the part of the state that playing an animation changes
Engine ==
    [aa |-> activeAnimations, la |-> loopingAnimations, tr |-> tracks,
     plays |-> plays, calls |-> 0]

\* spine.state.setAnimation(trackID, animation, loop): the track holds the new
\* entry; the entry it held is interrupted (no complete event for it)
setAnimation(tr, spineID, trackID, animation, loop, by) ==
    mapSet(tr, spineID,
           mapSet(tracksOf(tr, spineID), trackID,
                  [animation |-> animation, loop |-> loop, done |-> FALSE, by |-> by]))

\* the play records whose track entry is dropped from the runtime before it
\* completed are marked with the way it was dropped
dropEntries(ps, gone, how) ==
    [i \in DOMAIN ps |->
        IF i \in gone /\ ps[i].status = "playing"
        THEN [ps[i] EXCEPT !.status = how] ELSE ps[i]]

\* the plays that own the entries of a set of tracks of a rig
ownersOf(tr, spineID, ts) ==
    {tracksOf(tr, spineID)[t].by : t \in ts \cap DOMAIN tracksOf(tr, spineID)}

\* (mutant) a lookup that finds an instance under every id
spineOfAny(spineID) ==
    IF spineID \in DOMAIN spines THEN spines[spineID] ELSE instances + 1

\* this.spines.get(spineID): the instance, 0 for undefined (instances are
\* numbered from 1)
spineOf(spineID) ==
    IF spineID \in DOMAIN spines THEN spines[spineID] ELSE 0

\* playInstanceAnimation(spineID, animation); owner/ref name the join that
\* collects the returned promise
playInstanceAnimation(E, spineID, animation, owner, ref) ==
    LET nextAnimation == parseNext(animation) IN
    IF spineOf(spineID) = 0
    THEN [E EXCEPT !.calls = @ + 1]
    ELSE IF truthyTrack(E.aa, spineID, animation)
    THEN [E EXCEPT !.calls = @ + 1]
    ELSE
      LET loop    == loopFlag(animation)
          trackID == sizeOf(E.aa, spineID) + sizeOf(E.la, spineID)
          me      == Len(E.plays) + 1
          rec     == [spineID |-> spineID, inst |-> spineOf(spineID),
                      animation |-> animation, trackID |-> trackID,
                      loop |-> loop, next |-> nextAnimation,
                      owner |-> owner, ref |-> ref,
                      resolved |-> FALSE, chained |-> FALSE, fired |-> FALSE,
                      status |-> "playing"]
      IN  [aa |-> IF loop THEN E.aa
                  ELSE addActiveAnimation(E.aa, spineID, animation, trackID),
           la |-> IF loop
                  THEN addLoopingAnimation(E.la, spineID, animation, trackID)
                  ELSE E.la,
           tr |-> setAnimation(E.tr, spineID, trackID, animation, loop, me),
           plays |-> Append(dropEntries(E.plays,
                                        ownersOf(E.tr, spineID, {trackID}),
                                        "displaced"),
                            rec),
           calls |-> E.calls + 1]

\* a run of playInstanceAnimation calls, in order (the pairs, and the state
\* a call leaves, are bound as values before the next call reads them)
RECURSIVE playEach(_, _, _, _)
playEach(E, pairs, owner, ref) ==
    CHOOSE done \in
        {IF ps = <<>> THEN E
         ELSE CHOOSE after \in
                  {playEach(played, Tail(ps), owner, ref) :
                      played \in {playInstanceAnimation(E, ps[1][1], ps[1][2],
                                                        owner, ref)}} : TRUE
            : ps \in {pairs}} : TRUE

\* this.animations.get(name)?.forEach((animations, spineID) =>
\*     animations.forEach(animation => ...)): the (spineID, raw name) pairs
RECURSIVE pairsFrom(_, _)
pairsFrom(name, k) ==
    IF k > Len(SpineOrder) THEN <<>>
    ELSE LET id   == SpineOrder[k]
             here == IF name \in DOMAIN animations /\ id \in DOMAIN animations[name]
                     THEN [j \in 1..Len(animations[name][id]) |->
                              <<id, animations[name][id][j]>>]
                     ELSE <<>>
         IN  here \o pairsFrom(name, k + 1)

pairsOf(name) == pairsFrom(name, 1)

\* the pairs of every member of a state, member by member
RECURSIVE pairsOfMembers(_)
pairsOfMembers(members) ==
    IF members = <<>> THEN <<>>
    ELSE pairsOf(Head(members)) \o pairsOfMembers(Tail(members))

pairsOfState(stateName) ==
    IF stateName \in DOMAIN statesAnimations
    THEN pairsOfMembers(statesAnimations[stateName])
    ELSE <<>>

playAnimationByName(E, animationName, owner, ref) ==
    playEach(E, pairsOf(animationName), owner, ref)

playState(E, stateName, owner, ref) ==
    playEach(E, pairsOfState(stateName), owner, ref)

---------------------------------------------------------------------------
(* Promises. *)

\* (mutant) a first-complete race instead of the all-complete join
PromiseRace(bs) == \E b \in bs : b

\* Promise.all over promises whose states are bs: resolved when all are
PromiseAll(bs) == \A b \in bs : b

\* the plays whose promises a join collected
collected(ps, owner, ref) ==
    {i \in DOMAIN ps : ps[i].owner = owner /\ ps[i].ref = ref}

\* (mutant) a join that does not wait for the promises of looping clips
settleOneShots(ts, ps) ==
    [k \in DOMAIN ts |->
        [ts[k] EXCEPT !.resolved =
            @ \/ PromiseAll({ps[i].resolved :
                                i \in {j \in collected(ps, "task", k) : ~ps[j].loop}})]]

\* `await Promise.all(animationsPromises)` of the top-level playState and
\* playAnimationByName calls: the call's promise resolves once the join has
settle(ts, ps) ==
    [k \in DOMAIN ts |->
        [ts[k] EXCEPT !.resolved =
            @ \/ PromiseAll({ps[i].resolved : i \in collected(ps, "task", k)})]]

\* the .then reactions of line 281 that are due: resolved, not yet run
pendingThen == {i \in DOMAIN plays : plays[i].resolved /\ ~plays[i].chained}

\* (mutant) an await that continues only when a promise was collected
queueReadyIfAny ==
    /\ queue.status = "waiting"
    /\ collected(plays, "queue", queue.idx) # {}
    /\ PromiseAll({plays[i].resolved : i \in collected(plays, "queue", queue.idx)})

\* the await of playAnimationsQueue (lines 455, 457) can continue
queueReady ==
    /\ queue.status = "waiting"
    /\ PromiseAll({plays[i].resolved : i \in collected(plays, "queue", queue.idx)})

\* no microtask is pending: the next macrotask can run
Idle == pendingThen = {} /\ ~queueReady

\* the loop of playAnimationsQueue from entry i up to its next await (or its end)
RECURSIVE runQueue(_, _, _)
runQueue(E, entries, i) ==
    IF i > Len(entries) THEN [eng |-> E, idx |-> i]
    ELSE IF startsWith(entries[i], folderPointers.state)
    THEN IF getStateName(entries[i]) = <<>>
         THEN runQueue(E, entries, i + 1)
         ELSE [eng |-> playState(E, getStateName(entries[i]), "queue", i), idx |-> i]
    ELSE [eng |-> playAnimationByName(E, entries[i], "queue", i), idx |-> i]

\* the engine part of the next state
Commit(E) ==
    /\ activeAnimations' = E.aa
    /\ loopingAnimations' = E.la
    /\ tracks' = E.tr
    /\ plays' = E.plays

NoCall == <<"other">>

\* a call of the API: a macrotask of its own, counted
ApiCall ==
    /\ Idle
    /\ calls < MaxCalls
    /\ calls' = calls + 1

---------------------------------------------------------------------------
(* Ingestion. *)

\* (mutant) the name is pushed whether the list has it or not
pushAlways(stateAnimations, noModAnimation) == Append(stateAnimations, noModAnimation)

\* if (!stateAnimations.includes(noModAnimation)) stateAnimations.push(noModAnimation)
pushIfNotIncluded(stateAnimations, noModAnimation) ==
    IF \E k \in 1..Len(stateAnimations) : stateAnimations[k] = noModAnimation
    THEN stateAnimations
    ELSE Append(stateAnimations, noModAnimation)

\* the body of animations.forEach in addSpineInstance (lines 489-521) for one
\* animation name; R is [animations, statesAnimations]
registerAnimation(R, spineID, animation) ==
    LET noModAnimation == stripModificators(animation)
        withKey == IF noModAnimation \in DOMAIN R.animations THEN R.animations
                   ELSE mapSet(R.animations, noModAnimation, EmptyMap)
        isState == startsWith(animation, folderPointers.state)
        stateName == getStateName(noModAnimation)
        stateAnimations == IF stateName \in DOMAIN R.statesAnimations
                           THEN R.statesAnimations[stateName] ELSE <<>>
        members == pushIfNotIncluded(stateAnimations, noModAnimation)
        list == IF spineID \in DOMAIN withKey[noModAnimation]
                THEN withKey[noModAnimation][spineID] ELSE <<>>
    IN  IF isState /\ stateName = <<>>
        THEN [animations |-> withKey, statesAnimations |-> R.statesAnimations]
        ELSE [animations |->
                 mapSet(withKey, noModAnimation,
                        mapSet(withKey[noModAnimation], spineID, Append(list, animation))),
              statesAnimations |->
                 IF isState THEN mapSet(R.statesAnimations, stateName, members)
                 ELSE R.statesAnimations]

RECURSIVE registerEach(_, _, _)
registerEach(R, spineID, names) ==
    IF names = <<>> THEN R
    ELSE registerEach(registerAnimation(R, spineID, Head(names)), spineID, Tail(names))

\* the plays whose listener sits on an instance
listenersOf(ps, inst) == {i \in DOMAIN ps : ps[i].inst = inst}

---------------------------------------------------------------------------
(* The scene graph (pixi Container / Spine slot objects). *)

spineNode(n) == [kind |-> "spine", n |-> n]
textNode(n)  == [kind |-> "text", n |-> n]

noParent == [kind |-> "none", of |-> 0, slot |-> <<>>]
inScene  == [kind |-> "scene", of |-> 0, slot |-> <<>>]
inSlot(inst, slot) == [kind |-> "slot", of |-> inst, slot |-> slot]

\* container.addChild(node): the node leaves the parent it had
addChild(par, where, node) == mapSet(par, node, where)

\* (mutant) the slot keeps the object it held
addSlotObjectKeep(par, inst, slot, node) == addChild(par, inSlot(inst, slot), node)

\* spine.addSlotObject(slot, node): the object the slot held is removed from
\* the spine, node becomes the spine's child at that slot
addSlotObject(par, inst, slot, node) ==
    addChild([x \in DOMAIN par |->
                 IF par[x] = inSlot(inst, slot) THEN noParent ELSE par[x]],
             inSlot(inst, slot), node)

\* spine.destroy(): the instance is removed from its parent and its children
\* are detached from it (they are not destroyed)
destroy(par, inst) ==
    [x \in DOMAIN par \ {spineNode(inst)} |->
        IF par[x].kind = "slot" /\ par[x].of = inst THEN noParent ELSE par[x]]

\* this.removeChildren(): the children of the layout are detached
removeChildren(par) ==
    [x \in DOMAIN par |-> IF par[x] = inScene THEN noParent ELSE par[x]]

\* the key a Map<SpineID, ...> is asked for: the string of these characters
keyOf(chars) == IF Len(chars) = 1 THEN chars[1] ELSE ""

\* the keys of this.spines in iteration (insertion) order: instances are
\* numbered in creation order and a replaced key is deleted before it is set
RECURSIVE keysInOrder(_)
keysInOrder(S) ==
    IF DOMAIN S = {} THEN <<>>
    ELSE LET first == CHOOSE id \in DOMAIN S : \A o \in DOMAIN S : S[id] <= S[o]
         IN  <<first>> \o keysInOrder(mapDelete(S, first))

\* (mutant) only a rig ingested before the one with the slot is attached
attachBoneIfOlder(par, S, inst, slot, childSpineKey) ==
    IF keyOf(childSpineKey) \in DOMAIN S /\ S[keyOf(childSpineKey)] < inst
    THEN addSlotObject(par, inst, slot, spineNode(S[keyOf(childSpineKey)]))
    ELSE par

\* attachBone(slot, spine, childSpineKey)
attachBone(par, S, inst, slot, childSpineKey) ==
    IF keyOf(childSpineKey) \in DOMAIN S
    THEN addSlotObject(par, inst, slot, spineNode(S[keyOf(childSpineKey)]))
    ELSE par

\* slots.forEach of attachBones (lines 591-604) for one spine
RECURSIVE attachBonesOf(_, _, _, _)
attachBonesOf(par, S, inst, names) ==
    IF names = <<>> THEN par
    ELSE attachBonesOf(
           IF startsWith(Head(names), slotPointers.spine)
           THEN attachBone(par, S, inst, Head(names),
                           replaceFirst(Head(names), slotPointers.spine))
           ELSE par,
           S, inst, Tail(names))

\* the first spines.forEach of attachBones (lines 590-605)
RECURSIVE attachBonesEach(_, _, _, _)
attachBonesEach(par, S, SL, ids) ==
    IF ids = <<>> THEN par
    ELSE attachBonesEach(attachBonesOf(par, S, S[Head(ids)], SL[Head(ids)]),
                         S, SL, Tail(ids))

\* (mutant) no rig is added to the layout
addRootsNever(par, S, ids) == par

\* the second spines.forEach (lines 611-615): if (!spine.parent) addChild(spine)
RECURSIVE addRoots(_, _, _)
addRoots(par, S, ids) ==
    IF ids = <<>> THEN par
    ELSE addRoots(IF par[spineNode(S[Head(ids)])] = noParent
                  THEN addChild(par, inScene, spineNode(S[Head(ids)]))
                  ELSE par,
                  S, Tail(ids))

attachBones(par, S, SL) ==
    addRoots(attachBonesEach(par, S, SL, keysInOrder(S)), S, keysInOrder(S))

\* slots.forEach of attachTexts (lines 644-659) for one spine; G is
\* [parent, texts]; every text slot gets a new Text
RECURSIVE attachTextsOf(_, _, _)
attachTextsOf(G, inst, names) ==
    IF names = <<>> THEN G
    ELSE attachTextsOf(
           IF startsWith(Head(names), slotPointers.text)
           THEN LET textKey == replaceFirst(Head(names), slotPointers.text)
                    text == textNode(1 + Cardinality({x \in DOMAIN G.parent :
                                                        x.kind = "text"}))
                IN  [parent |-> addSlotObject(G.parent, inst, Head(names), text),
                     texts |-> mapSet(G.texts, textKey, text)]
           ELSE G,
           inst, Tail(names))

RECURSIVE attachTextsEach(_, _, _, _)
attachTextsEach(G, S, SL, ids) ==
    IF ids = <<>> THEN G
    ELSE attachTextsEach(attachTextsOf(G, S[Head(ids)], SL[Head(ids)]),
                         S, SL, Tail(ids))

attachTexts(G, S, SL) == attachTextsEach(G, S, SL, keysInOrder(S))

---------------------------------------------------------------------------
(* Ingestion: the calls. *)

\* the part of the state that ingestion changes
Layout ==
    [spines |-> spines, instances |-> instances, animations |-> animations,
     statesAnimations |-> statesAnimations, slots |-> slots, parent |-> parent,
     texts |-> texts, tracks |-> tracks, plays |-> plays]

CommitLayout(L) ==
    /\ spines' = L.spines
    /\ instances' = L.instances
    /\ animations' = L.animations
    /\ statesAnimations' = L.statesAnimations
    /\ slots' = L.slots
    /\ parent' = L.parent
    /\ texts' = L.texts
    /\ tracks' = L.tracks
    /\ plays' = L.plays

\* addSpineInstance(spineID, spine): the instance of that id, if any, is
\* destroyed and replaced; the animations of the new skeleton are registered
addSpineInstance(L, data) ==
    LET spineID == data.spineID
        has == spineID \in DOMAIN L.spines
        R == registerEach([animations |-> L.animations,
                           statesAnimations |-> L.statesAnimations],
                          spineID, data.animations)
    IN  [spines |-> mapSet(L.spines, spineID, L.instances + 1),
         instances |-> L.instances + 1,
         animations |-> R.animations,
         statesAnimations |-> R.statesAnimations,
         slots |-> mapSet(L.slots, spineID, data.slots),
         parent |-> mapSet(IF has THEN destroy(L.parent, L.spines[spineID])
                           ELSE L.parent,
                           spineNode(L.instances + 1), noParent),
         texts |-> L.texts,
         tracks |-> mapSet(L.tracks, spineID, EmptyMap),
         plays |-> dropEntries(L.plays,
                               IF has THEN listenersOf(L.plays, L.spines[spineID])
                               ELSE {},
                               "destroyed")]

\* this.attachBones(); this.attachTexts()
compose(L) ==
    LET G == attachTexts([parent |-> attachBones(L.parent, L.spines, L.slots),
                          texts |-> L.texts],
                         L.spines, L.slots)
    IN  [L EXCEPT !.parent = G.parent, !.texts = G.texts]

\* (mutant) the pages are not tested
pagesNotTested(data) == TRUE

\* the loop over spineAtlas.pages (lines 82-90) ends without a throw: every
\* page has a texture in data.textures
pagesHaveTextures(data) == data.textures

\* createInstanceFromData(data): throws, before anything is changed, when a
\* page of the atlas has no texture; else adds the instance and wires the scene
createInstanceFromData(data) ==
    /\ ApiCall
    /\ CommitLayout(IF pagesHaveTextures(data)
                    THEN compose(addSpineInstance(Layout, data))
                    ELSE Layout)
    /\ tasks' = settle(tasks, plays')
    /\ lastCall' = NoCall
    /\ UNCHANGED <<activeAnimations, loopingAnimations, queue, codecVars, assetVars, toolVars>>

\* data.forEach(item => createInstanceFromData(item, true)) up to its end or
\* to the item that throws
RECURSIVE addEach(_, _)
addEach(L, data) ==
    IF data = <<>> \/ ~pagesHaveTextures(Head(data)) THEN L
    ELSE addEach(addSpineInstance(L, Head(data)), Tail(data))

\* an item of the batch makes createInstanceFromData throw
throws(data) == \E k \in 1..Len(data) : ~pagesHaveTextures(data[k])

\* createInstancesFromDataArray(data): the exception of an item leaves forEach
\* and the function; attachBones and attachTexts run when none was thrown
createInstancesFromDataArray(data) ==
    /\ ApiCall
    /\ CommitLayout(IF throws(data) THEN addEach(Layout, data)
                    ELSE compose(addEach(Layout, data)))
    /\ tasks' = settle(tasks, plays')
    /\ lastCall' = NoCall
    /\ UNCHANGED <<activeAnimations, loopingAnimations, queue, codecVars, assetVars, toolVars>>

\* every spine destroyed, in the order of this.spines
RECURSIVE destroyEach(_, _, _)
destroyEach(par, S, ids) ==
    IF ids = <<>> THEN par
    ELSE destroyEach(destroy(par, S[Head(ids)]), S, Tail(ids))

\* (mutant) a reset that keeps the registry
resetKeepsRegistry(reg) == reg

\* this.animations.clear()
clearRegistry(reg) == EmptyMap

\* reset(): every spine destroyed; spines, animations and texts cleared; the
\* children of the layout removed
reset ==
    /\ ApiCall
    /\ spines' = EmptyMap
    /\ animations' = clearRegistry(animations)
    /\ texts' = EmptyMap
    /\ parent' = removeChildren(destroyEach(parent, spines, keysInOrder(spines)))
    /\ slots' = EmptyMap
    /\ tracks' = EmptyMap
    /\ plays' = dropEntries(plays, DOMAIN plays, "destroyed")
    /\ lastCall' = NoCall
    /\ UNCHANGED <<instances, statesAnimations, activeAnimations,
                   loopingAnimations, tasks, queue, codecVars, assetVars, toolVars>>

---------------------------------------------------------------------------
(* The calls of the playback API. *)

\* what a caller may pass
Clips      == {<<"A", walk_loop>>, <<"A", intro_a>>}
BaseNames  == {walk}
StateNames == {intro}
Queues     == {<<state_, state_intro, jump>>}

\* a top-level playInstanceAnimation(spineID, animation)
PlayInstance(spineID, animation) ==
    /\ ApiCall
    /\ Commit(playInstanceAnimation(Engine, spineID, animation, "none", 0))
    /\ tasks' = settle(tasks, plays')
    /\ lastCall' = <<"playInstanceAnimation", spineID, animation>>
    /\ UNCHANGED <<sceneVars, codecVars, assetVars, toolVars>>
    /\ UNCHANGED <<spines, instances, animations, statesAnimations, queue>>

\* a top-level playAnimationByName(animationName)
PlayBase(animationName) ==
    /\ ApiCall
    /\ LET E == playAnimationByName(Engine, animationName, "task", Len(tasks) + 1)
       IN  /\ Commit(E)
           /\ tasks' = settle(Append(tasks, [kind |-> "base", name |-> animationName,
                                             pairs |-> pairsOf(animationName),
                                             calls |-> E.calls, resolved |-> FALSE]),
                              E.plays)
    /\ lastCall' = NoCall
    /\ UNCHANGED <<sceneVars, codecVars, assetVars, toolVars>>
    /\ UNCHANGED <<spines, instances, animations, statesAnimations, queue>>

\* a top-level playState(stateName)
PlayState(stateName) ==
    /\ ApiCall
    /\ LET E == playState(Engine, stateName, "task", Len(tasks) + 1)
       IN  /\ Commit(E)
           /\ tasks' = settle(Append(tasks, [kind |-> "state", name |-> stateName,
                                             pairs |-> pairsOfState(stateName),
                                             calls |-> E.calls, resolved |-> FALSE]),
                              E.plays)
    /\ lastCall' = NoCall
    /\ UNCHANGED <<sceneVars, codecVars, assetVars, toolVars>>
    /\ UNCHANGED <<spines, instances, animations, statesAnimations, queue>>

\* playAnimationsQueue(entries), up to its first await
PlayQueue(entries) ==
    /\ ApiCall
    /\ queue.status = "idle"
    /\ \E R \in {runQueue(Engine, entries, 1)} :
           /\ Commit(R.eng)
           /\ queue' = [entries |-> entries, idx |-> R.idx,
                        status |-> IF R.idx > Len(entries) THEN "done" ELSE "waiting"]
    /\ tasks' = settle(tasks, plays')
    /\ lastCall' = NoCall
    /\ UNCHANGED <<sceneVars, codecVars, assetVars, toolVars>>
    /\ UNCHANGED <<spines, instances, animations, statesAnimations>>

\* the continuation of playAnimationsQueue after the await of entry queue.idx
QueueResume ==
    /\ pendingThen = {}
    /\ queueReady
    /\ \E R \in {runQueue(Engine, queue.entries, queue.idx + 1)} :
           /\ Commit(R.eng)
           /\ queue' = [queue EXCEPT !.idx = R.idx,
                           !.status = IF R.idx > Len(queue.entries)
                                      THEN "done" ELSE "waiting"]
    /\ tasks' = settle(tasks, plays')
    /\ lastCall' = NoCall
    /\ UNCHANGED <<sceneVars, codecVars, assetVars, toolVars>>
    /\ UNCHANGED <<spines, instances, animations, statesAnimations, calls>>

\* the reaction of line 281 for play i: if (nextAnimation) playAnimationByName(it)
ThenNext(i) ==
    /\ i \in pendingThen
    /\ i = Min(pendingThen)
    /\ \E E \in {IF plays[i].next # <<>>
                   THEN playAnimationByName(Engine, plays[i].next, "none", 0)
                   ELSE Engine} :
           Commit([E EXCEPT !.plays[i].chained = TRUE])
    /\ tasks' = settle(tasks, plays')
    /\ lastCall' = NoCall
    /\ UNCHANGED <<sceneVars, codecVars, assetVars, toolVars>>
    /\ UNCHANGED <<spines, instances, animations, statesAnimations, queue, calls>>

\* (mutant) a complete event that reaches no listener
fireNoListener(E, inst, i) == E

\* the complete listeners of lines 274-280 of an instance, run in the order
\* they were added: each removes its animation from the active map and
\* resolves its promise (a no-op on a resolved promise); the state a listener
\* leaves is bound as a value before the next one reads it
RECURSIVE fireListeners(_, _, _)
fireListeners(E, inst, i) ==
    IF i > Len(E.plays) THEN E
    ELSE IF E.plays[i].inst # inst THEN fireListeners(E, inst, i + 1)
    ELSE CHOOSE after \in
             {fireListeners(fired, inst, i + 1) :
                 fired \in
                   {[E EXCEPT !.aa = removeActiveAnimation(@, E.plays[i].spineID,
                                                          E.plays[i].animation),
                             !.plays[i].chained = IF E.plays[i].resolved THEN @
                                                  ELSE E.plays[i].next = <<>>,
                             !.plays[i].resolved = TRUE,
                             !.plays[i].fired = TRUE]}} : TRUE

\* the runtime completes the entry of a track: a non-looping entry that has
\* not completed yet
canComplete(spineID, trackID) ==
    /\ spineID \in DOMAIN spines
    /\ trackID \in DOMAIN tracks[spineID]
    /\ ~tracks[spineID][trackID].loop
    /\ ~tracks[spineID][trackID].done

\* the complete event of a track entry, dispatched to every listener of the
\* instance's AnimationState
Complete(spineID, trackID) ==
    /\ Idle
    /\ canComplete(spineID, trackID)
    /\ \E E \in {[Engine EXCEPT
                      !.tr[spineID][trackID].done = TRUE,
                      !.plays[tracks[spineID][trackID].by].status = "completed"]} :
           \E F \in {fireListeners(E, spines[spineID], 1)} : Commit(F)
    /\ tasks' = settle(tasks, plays')
    /\ lastCall' = NoCall
    /\ UNCHANGED <<sceneVars, codecVars, assetVars, toolVars>>
    /\ UNCHANGED <<spines, instances, animations, statesAnimations, queue, calls>>

\* spine.state.clearTrack(trackID)
clearTrack(tr, spineID, trackID) ==
    mapSet(tr, spineID, mapDelete(tracksOf(tr, spineID), trackID))

\* stopAnimation(spineID, animation)
stopAnimation(spineID, animation) ==
    /\ ApiCall
    /\ IF spineID \notin DOMAIN spines
       THEN UNCHANGED <<activeAnimations, loopingAnimations, tracks, plays>>
       ELSE LET track == truthyTrack(activeAnimations, spineID, animation)
                loopingTrack == truthyTrack(loopingAnimations, spineID, animation)
                gone == (IF track THEN {activeAnimations[spineID][animation]} ELSE {})
                        \cup (IF loopingTrack
                              THEN {loopingAnimations[spineID][animation]} ELSE {})
                tr1 == IF track
                       THEN clearTrack(tracks, spineID, activeAnimations[spineID][animation])
                       ELSE tracks
                tr2 == IF loopingTrack
                       THEN clearTrack(tr1, spineID, loopingAnimations[spineID][animation])
                       ELSE tr1
            IN  /\ tracks' = tr2
                /\ plays' = dropEntries(
                              dropEntries(plays,
                                          {i \in ownersOf(tracks, spineID, gone) :
                                              plays[i].animation = animation},
                                          "cleared"),
                              ownersOf(tracks, spineID, gone), "displaced")
                /\ loopingAnimations' =
                       removeLoopingAnimation(loopingAnimations, spineID, animation)
                /\ activeAnimations' =
                       removeActiveAnimation(activeAnimations, spineID, animation)
    /\ lastCall' = NoCall
    /\ UNCHANGED <<sceneVars, codecVars, assetVars, toolVars>>
    /\ UNCHANGED <<spines, instances, animations, statesAnimations, tasks, queue>>

\* the body of stopAll (lines 190-197) on the engine state E: for every spine,
\* clearTracks() and both bookkeeping entries deleted
stopAllOn(E) ==
    [E EXCEPT
       !.tr = [id \in DOMAIN E.tr |->
                  IF id \in DOMAIN spines THEN EmptyMap ELSE E.tr[id]],
       !.plays = dropEntries(E.plays,
                             UNION {listenersOf(E.plays, spines[id]) :
                                       id \in DOMAIN spines},
                             "cleared"),
       !.aa = [id \in DOMAIN E.aa \ DOMAIN spines |-> E.aa[id]],
       !.la = [id \in DOMAIN E.la \ DOMAIN spines |-> E.la[id]]]

\* stopAll()
stopAll ==
    /\ ApiCall
    /\ Commit(stopAllOn(Engine))
    /\ lastCall' = NoCall
    /\ UNCHANGED <<sceneVars, codecVars, assetVars, toolVars>>
    /\ UNCHANGED <<spines, instances, animations, statesAnimations, tasks, queue>>

---------------------------------------------------------------------------

\* the fields of a SpineLayout as their initializers leave them (lines 48-53)
EmptyLayout ==
    [spines |-> EmptyMap, instances |-> 0, animations |-> EmptyMap,
     statesAnimations |-> EmptyMap, slots |-> EmptyMap, parent |-> EmptyMap,
     texts |-> EmptyMap, tracks |-> EmptyMap, plays |-> <<>>]

\* addSpineInstance for each rig of the manifest: the layout after the first
\* k rigs
RECURSIVE fromManifest(_)
fromManifest(k) ==
    IF k = 0 THEN EmptyLayout
    ELSE addSpineInstance(fromManifest(k - 1), Manifest[k])

\* createInstancesFromManifest(manifest)
createInstancesFromManifest == compose(fromManifest(Len(Manifest)))

\* the state of a layout L on which nothing was played
Constructed(L) ==
    /\ spines = L.spines
    /\ instances = L.instances
    /\ animations = L.animations
    /\ statesAnimations = L.statesAnimations
    /\ slots = L.slots
    /\ parent = L.parent
    /\ texts = L.texts
    /\ tracks = L.tracks
    /\ plays = L.plays
    /\ activeAnimations = EmptyMap
    /\ loopingAnimations = EmptyMap
    /\ tasks = <<>>
    /\ queue = [entries |-> <<>>, idx |-> 0, status |-> "idle"]
    /\ lastCall = NoCall
    /\ calls = 0

\* no name was given to the codec, no asset file to the loaders
NoName == raw = <<>> /\ decoded = <<>> /\ parsed = <<>>
NoAssets == files = EmptyMap /\ spinesMap = <<>> /\ loadedSpines = <<>>

\* the files of the watched folder, in the order the directory lists them
DirFiles == <<"hero.json", "hero.atlas">>

\* new FileSystemController(): no folder handle, nothing hashed, no poll yet;
\* lastModified is the time stamp of each file of the folder, stored tells
\* whether the key 'dirHandle' of the store holds a handle
NewController ==
    [dirHandle |-> FALSE, stored |-> FALSE,
     filesHash |-> [f \in 1..Len(DirFiles) |-> 0],
     lastModified |-> [f \in 1..Len(DirFiles) |-> 1],
     loops |-> <<>>, closed |-> FALSE, late |-> FALSE]

\* a Preloader before its constructor body: initiated = false, the asset
\* system not initialised, no call under way
NewPreloader ==
    [initiated |-> FALSE, assets |-> "none", inits |-> 0, calls |-> <<>>,
     early |-> FALSE]

\* new Sounds(): the flags of lines 15-16, no sound yet, the default
\* settings, and mute(); fxSounds and musicSounds hold the mute flag of each
\* sound made so far
NewSounds ==
    [userInteraction |-> FALSE, initialized |-> FALSE,
     fxSounds |-> <<>>, musicSounds |-> <<>>,
     settings |-> [muted |-> FALSE, fxMuted |-> FALSE, musicMuted |-> FALSE],
     howlerMuted |-> TRUE, hidden |-> FALSE]

\* the editor, the preloader and the audio are constructed and left alone
NoTools == fsc = NewController /\ preloader = NewPreloader /\ sounds = NewSounds

\* new SpineLayout({manifest}): createInstancesFromManifest, nothing playing
Init ==
    /\ Constructed(createInstancesFromManifest)
    /\ NoName
    /\ NoAssets
    /\ NoTools

Next ==
    \/ \E data \in RigData : createInstanceFromData(data)
    \/ stopAll
    \/ reset
    \/ \E c \in Clips : PlayInstance(c[1], c[2])
    \/ \E a \in BaseNames : PlayBase(a)
    \/ \E st \in StateNames : PlayState(st)
    \/ \E q \in Queues : PlayQueue(q)
    \/ QueueResume
    \/ \E i \in DOMAIN plays : ThenNext(i)
    \/ \E id \in DOMAIN tracks : \E t \in DOMAIN tracks[id] : Complete(id, t)
    \/ \E c \in Clips : stopAnimation(c[1], c[2])

Spec == Init /\ [][Next]_vars

---------------------------------------------------------------------------
(* A layout constructed without a manifest, filled by the ingestion calls. *)

\* the rigs createInstanceFromData can be called with
IngestData == {DataA, DataB, DataC, DataD, DataB2}

\* the arrays createInstancesFromDataArray can be called with
Batches == {<<>>, <<DataB, DataA>>, <<DataA, DataD, DataB>>}

\* new SpineLayout(); no clip these requests can start names a next animation,
\* so no .then reaction has anything to do
InitIngest ==
    /\ Constructed(EmptyLayout)
    /\ NoName
    /\ NoAssets
    /\ NoTools

NextIngest ==
    \/ \E data \in IngestData : createInstanceFromData(data)
    \/ \E data \in Batches : createInstancesFromDataArray(data)
    \/ reset
    \/ \E c \in Clips : PlayInstance(c[1], c[2])
    \/ \E a \in BaseNames : PlayBase(a)
    \/ \E st \in StateNames : PlayState(st)
    \/ \E id \in DOMAIN tracks : \E t \in DOMAIN tracks[id] : Complete(id, t)

SpecIngest == InitIngest /\ [][NextIngest]_vars

\* getActiveAnimations() / getLoopingAnimations(): the keys of the two maps
getActiveAnimations == DOMAIN activeAnimations
getLoopingAnimations == DOMAIN loopingAnimations

---------------------------------------------------------------------------
(* C1: calling playInstanceAnimation twice in immediate succession for the
   same rig and clip makes the second call resolve at once (no new listener,
   no new promise) and issues no second setAnimation to the runtime. *)
C1_SecondPlayIsNoOp ==
    [][\A c \in Clips :
          (lastCall = <<"playInstanceAnimation", c[1], c[2]>> /\ PlayInstance(c[1], c[2]))
          => (plays' = plays /\ tracks' = tracks)]_vars

(* C2: in every reachable state the track indices recorded for one rig are
   pairwise distinct across the clips in its active and looping maps. *)
recorded(spineID) ==
    {<<"active", a, tracksOf(activeAnimations, spineID)[a]>> :
        a \in DOMAIN tracksOf(activeAnimations, spineID)}
    \cup {<<"looping", a, tracksOf(loopingAnimations, spineID)[a]>> :
        a \in DOMAIN tracksOf(loopingAnimations, spineID)}

C2_TracksPairwiseDistinct ==
    \A id \in SpineID : \A x, y \in recorded(id) : x # y => x[3] # y[3]

(* C3: the promise of playState(s) is resolved only when every clip the call
   started has itself completed in the runtime; never while one of them is
   still playing. *)
C3_StateResolvesAfterAllCompleted ==
    \A k \in DOMAIN tasks :
        (tasks[k].kind = "state" /\ tasks[k].resolved)
        => \A i \in collected(plays, "task", k) : plays[i].status = "completed"

(* C4: playAnimationByName(base) calls playInstanceAnimation once for every
   (spineID, raw name) pair the registry holds under base, and its promise is
   resolved exactly when every promise those calls returned is resolved
   (all-complete join, not first-complete). *)
C4_BaseIsAllCompleteJoin ==
    \A k \in DOMAIN tasks :
        tasks[k].kind = "base"
        => /\ tasks[k].calls = Len(tasks[k].pairs)
           /\ \A i \in collected(plays, "task", k) :
                 \E j \in 1..Len(tasks[k].pairs) :
                    tasks[k].pairs[j] = <<plays[i].spineID, plays[i].animation>>
           /\ tasks[k].resolved
                 <=> \A i \in collected(plays, "task", k) : plays[i].resolved

\* a playAnimationByName call that fanned out to two rigs has resolved
C4_Witness ==
    \E k \in DOMAIN tasks :
        /\ tasks[k].kind = "base"
        /\ tasks[k].resolved
        /\ Cardinality({plays[i].spineID : i \in collected(plays, "task", k)}) >= 2

(* C5: playAnimationsQueue is strictly sequential: no setAnimation of entry
   N+1 is issued before every clip of entry N has completed. *)
C5_QueueStrictlySequential ==
    [][\A j \in DOMAIN plays' \ DOMAIN plays :
          plays'[j].owner = "queue"
          => \A i \in DOMAIN plays :
                (plays[i].owner = "queue" /\ plays[i].ref < plays'[j].ref)
                => plays[i].status = "completed"]_vars

(* C6 (as claimed): with "walk" provided by rig A as "walk_loop" and by rig B
   as "walk", the join of playAnimationByName("walk") is resolved once B's
   clip has completed, without a completion of A's looping clip. *)
walkJoins ==
    {k \in DOMAIN tasks : tasks[k].kind = "base" /\ tasks[k].name = walk}

loopingOfA(k) ==
    {i \in collected(plays, "task", k) : plays[i].spineID = "A" /\ plays[i].loop}

oneShotOfB(k) ==
    {i \in collected(plays, "task", k) : plays[i].spineID = "B" /\ ~plays[i].loop}

C6_JoinResolvesOnB ==
    \A k \in walkJoins :
        (loopingOfA(k) # {} /\ oneShotOfB(k) # {}
         /\ \A i \in oneShotOfB(k) : plays[i].status = "completed")
        => tasks[k].resolved

(* C6 (amended): the join of playAnimationByName("walk") is not resolved by
   B's completion alone: it is resolved only once the listener of A's looping
   clip has run as well, that is once a complete event has fired on rig A
   after the call. *)
C6_JoinWaitsForLoopingMember ==
    \A k \in walkJoins :
        tasks[k].resolved
        => \A i \in loopingOfA(k) \cup oneShotOfB(k) : plays[i].fired

\* B's clip has completed and the join is still pending on A's looping clip
C6_Witness ==
    \E k \in walkJoins :
        /\ loopingOfA(k) # {}
        /\ \E i \in oneShotOfB(k) : plays[i].status = "completed"
        /\ ~tasks[k].resolved

(* C7: the promise returned for a loop-flagged clip is not resolved unless
   that clip was explicitly stopped; no complete event resolves it. *)
C7_LoopResolvesOnlyOnStop ==
    \A i \in DOMAIN plays :
        (plays[i].loop /\ plays[i].resolved) => plays[i].status = "cleared"

(* C8: once a clip was stopped (its track cleared by stopAll or
   stopAnimation) before it completed, the promise its play call returned
   never resolves afterwards. *)
C8_StoppedNeverResolves ==
    [][\A i \in DOMAIN plays :
          (plays[i].status = "cleared" /\ ~plays[i].resolved)
          => ~plays'[i].resolved]_vars

(* C9: stopAnimation(spineID, animation) on a clip tracked on any track t,
   t = 0 included, has the runtime clear track t of that rig and removes the
   clip from whichever map holds it. *)
trackedOn(spineID, animation) ==
    {tracksOf(activeAnimations, spineID)[a] :
        a \in {animation} \cap DOMAIN tracksOf(activeAnimations, spineID)}
    \cup {tracksOf(loopingAnimations, spineID)[a] :
        a \in {animation} \cap DOMAIN tracksOf(loopingAnimations, spineID)}

C9_StopClearsTheTrack ==
    [][\A c \in Clips :
          (c[1] \in DOMAIN spines /\ stopAnimation(c[1], c[2]))
          => /\ \A t \in trackedOn(c[1], c[2]) : t \notin DOMAIN tracks'[c[1]]
             /\ c[2] \notin DOMAIN tracksOf(activeAnimations', c[1])
             /\ c[2] \notin DOMAIN tracksOf(loopingAnimations', c[1])]_vars

(* C10: after stopAll(), in whatever state it is called, no clip is recorded:
   getActiveAnimations() and getLoopingAnimations() are both empty. *)
C10_StopAllEmptiesBookkeeping ==
    [][stopAll => (getActiveAnimations' = {} /\ getLoopingAnimations' = {})]_vars

---------------------------------------------------------------------------
(* The name codec on its own: stripModificators applied to a raw animation
   name, then to its own result. *)

\* how many modifier tokens a raw name carries at most
MaxMods == 3

\* one token of each recognized modifier, with its value
ModTokens ==
    { <<"_", "n", "e", "x", "t", "_", "w">>,
      <<"_", "l", "o", "o", "p">>,
      <<"_", "s", "p", "e", "e", "d", "_", "2">>,
      <<"_", "s", "p", "e", "e", "d", "X", "_", "2">>,
      <<"_", "s", "p", "e", "e", "d", "Y", "_", "2">> }

RECURSIVE concat(_)
concat(parts) == IF parts = <<>> THEN <<>> ELSE Head(parts) \o concat(Tail(parts))

\* the raw names: a base name followed by tokens in any combination and order
RawNames ==
    {walk \o concat(ms) : ms \in UNION {[1..k -> ModTokens] : k \in 0..MaxMods}}

InitCodec ==
    /\ Constructed(EmptyLayout)
    /\ raw \in RawNames
    /\ decoded = <<>>
    /\ parsed = <<>>
    /\ NoAssets
    /\ NoTools

\* stripModificators(raw), then stripModificators of what it returned
Decode ==
    /\ Len(decoded) < 2
    /\ decoded' = Append(decoded,
                         stripModificators(IF decoded = <<>> THEN raw
                                           ELSE decoded[Len(decoded)]))
    /\ UNCHANGED <<spines, instances, animations, statesAnimations,
                   activeAnimations, loopingAnimations, tracks, plays, tasks,
                   queue, lastCall, calls, sceneVars, raw, parsed, assetVars, toolVars>>

\* lines 225-235 of playInstanceAnimation applied to the raw name: the value
\* of nextAnimation
ParseNext ==
    /\ parsed = <<>>
    /\ parsed' = <<parseNext(raw)>>
    /\ UNCHANGED <<spines, instances, animations, statesAnimations,
                   activeAnimations, loopingAnimations, tracks, plays, tasks,
                   queue, lastCall, calls, sceneVars, raw, decoded, assetVars, toolVars>>

NextCodec == Decode \/ ParseNext

SpecCodec == InitCodec /\ [][NextCodec]_vars

---------------------------------------------------------------------------
(* C11: a play request that names an unknown rig (playInstanceAnimation), an
   unknown base name (playAnimationByName) or an unknown state (playState)
   is a completed no-op: its promise is resolved when the call returns, no
   setAnimation is issued (no track changes, no listener is added) and the
   registry, the state groups and the track bookkeeping are unchanged. *)
noOp ==
    /\ plays' = plays
    /\ tracks' = tracks
    /\ activeAnimations' = activeAnimations
    /\ loopingAnimations' = loopingAnimations
    /\ animations' = animations
    /\ statesAnimations' = statesAnimations

C11_UnknownNameIsResolvedNoOp ==
    [][/\ \A c \in Clips :
            (c[1] \notin DOMAIN spines /\ PlayInstance(c[1], c[2])) => noOp
       /\ \A a \in BaseNames :
            (a \notin DOMAIN animations /\ PlayBase(a))
            => (noOp /\ tasks'[Len(tasks')].resolved)
       /\ \A st \in StateNames :
            (st \notin DOMAIN statesAnimations /\ PlayState(st))
            => (noOp /\ tasks'[Len(tasks')].resolved)]_vars

\* on a layout without rigs, a state, a base name and a clip of a rig were
\* requested, the last one just now
C11_Witness ==
    /\ spines = EmptyMap
    /\ animations = EmptyMap
    /\ statesAnimations = EmptyMap
    /\ \E k \in DOMAIN tasks : tasks[k].kind = "state" /\ tasks[k].resolved
    /\ \E k \in DOMAIN tasks : tasks[k].kind = "base" /\ tasks[k].resolved
    /\ lastCall # NoCall

(* C12: when a rig of the array given to createInstancesFromDataArray has an
   atlas page without a texture, only that rig is not created: every other
   rig of the array, before or after it, is an instance of the layout, has
   its animations in the registry and is wired into the scene graph. *)
registeredIn(reg, spineID, animation) ==
    /\ stripModificators(animation) \in DOMAIN reg
    /\ spineID \in DOMAIN reg[stripModificators(animation)]
    /\ \E j \in 1..Len(reg[stripModificators(animation)][spineID]) :
          reg[stripModificators(animation)][spineID][j] = animation

C12_OnlyTheFailingRigIsAborted ==
    [][\A data \in Batches :
          createInstancesFromDataArray(data)
          => \A k \in 1..Len(data) :
                data[k].textures
                => /\ data[k].spineID \in DOMAIN spines'
                   /\ \A j \in 1..Len(data[k].animations) :
                         registeredIn(animations', data[k].spineID,
                                      data[k].animations[j])
                   /\ spineNode(spines'[data[k].spineID]) \in DOMAIN parent'
                   /\ parent'[spineNode(spines'[data[k].spineID])] # noParent]_vars

(* C13: for every raw name built from the recognized modifiers in any
   combination and order, stripping is a fixed point on its own result:
   stripModificators(stripModificators(raw)) = stripModificators(raw). *)
C13_StripTwiceIsStripOnce ==
    Len(decoded) = 2 => decoded[2] = decoded[1]

(* C14: re-registering a rig id that is present (createInstanceFromData for
   an id the layout has) leaves, in every list the registry keeps for that id,
   only raw names of the new instance, each once, with every raw name of the
   new instance registered; and no state group keeps a member that only the
   old instance contributed. *)
namesOf(list) == {list[j] : j \in 1..Len(list)}

occurrences(list, x) == Cardinality({j \in 1..Len(list) : list[j] = x})

C14_ReRegistrationReplacesEntries ==
    [][\A data \in IngestData :
          (data.spineID \in DOMAIN spines /\ data.textures
           /\ createInstanceFromData(data))
          => /\ \A key \in DOMAIN animations' :
                   data.spineID \in DOMAIN animations'[key]
                   => \A x \in namesOf(animations'[key][data.spineID]) :
                         /\ x \in namesOf(data.animations)
                         /\ occurrences(animations'[key][data.spineID], x) = 1
             /\ \A st \in DOMAIN statesAnimations' :
                   \A m \in namesOf(statesAnimations'[st]) :
                      ~ /\ m \in DOMAIN animations
                        /\ DOMAIN animations[m] = {data.spineID}
                        /\ \A x \in namesOf(data.animations) :
                              stripModificators(x) # m]_vars

(* C15: every raw name the registry holds for a rig stands under exactly one
   base name, the one stripModificators gives for it, and stands there exactly
   once, in the list of that rig. *)
C15_RawNameRegisteredExactlyOnce ==
    \A key \in DOMAIN animations :
        \A id \in DOMAIN animations[key] :
            \A x \in namesOf(animations[key][id]) :
                /\ key = stripModificators(x)
                /\ occurrences(animations[key][id], x) = 1
                /\ \A other \in DOMAIN animations \ {key} :
                      id \in DOMAIN animations[other]
                      => x \notin namesOf(animations[other][id])

\* the step ran attachBones and attachTexts to their end
passRan ==
    \/ \E data \in IngestData : data.textures /\ createInstanceFromData(data)
    \/ \E data \in Batches : ~throws(data) /\ createInstancesFromDataArray(data)

\* the (rig, slot) pairs of the live rigs whose slot name is "spine_" then id
socketsFor(S, SL, id) ==
    {ps \in (DOMAIN S) \X (UNION {namesOf(SL[P]) : P \in DOMAIN S}) :
        /\ ps[2] \in namesOf(SL[ps[1]])
        /\ startsWith(ps[2], slotPointers.spine)
        /\ keyOf(replaceFirst(ps[2], slotPointers.spine)) = id}

\* the nodes a slot of an instance holds
heldBy(par, inst, slot) == {x \in DOMAIN par : par[x] = inSlot(inst, slot)}

(* C16 (as claimed): after the builder has run, for any two live rigs P and C
   where P has a slot named "spine_" then C's id, C is the child of P on that
   slot, in whatever order they were ingested; a slot naming a rig that does
   not exist holds nothing. *)
C16_ChildOfEverySocketNamingIt ==
    [][passRan
       => \A id \in SpineID \cup {"G"} :
             \A ps \in socketsFor(spines', slots', id) :
                IF id \in DOMAIN spines'
                THEN parent'[spineNode(spines'[id])] = inSlot(spines'[ps[1]], ps[2])
                ELSE heldBy(parent', spines'[ps[1]], ps[2]) = {}]_vars

(* C16 (amended): after the builder has run, a live rig C that slots of live
   rigs name is the child of one of them: of the rig among them that was
   ingested last, on its slot, in whatever order C and that rig were
   ingested; a slot naming a rig that does not exist holds nothing. *)
C16_ChildOfLastSocketNamingIt ==
    [][passRan
       => \A id \in SpineID \cup {"G"} :
             LET named == socketsFor(spines', slots', id)
             IN  IF id \in DOMAIN spines'
                 THEN named # {}
                      => \E ps \in named :
                            /\ \A o \in named : spines'[o[1]] <= spines'[ps[1]]
                            /\ parent'[spineNode(spines'[id])]
                                  = inSlot(spines'[ps[1]], ps[2])
                 ELSE \A ps \in named :
                         heldBy(parent', spines'[ps[1]], ps[2]) = {}]_vars

\* rig B sits on the slot of rig A, which was ingested before it, and A's
\* slot for the rig that does not exist holds nothing
C16_Witness ==
    /\ "A" \in DOMAIN spines
    /\ "B" \in DOMAIN spines
    /\ spines["A"] < spines["B"]
    /\ parent[spineNode(spines["B"])] = inSlot(spines["A"], spine_B)
    /\ heldBy(parent, spines["A"], spine_G) = {}

(* C17: the builder is idempotent: after a step that ran attachBones and
   attachTexts, running them again over the same rigs gives the same edges
   (every rig under the same parent, every text key on the same slot) and no
   slot holds more than one node, before or after the second run. *)
edgesOf(L) ==
    [rigs  |-> {<<x, L.parent[x]>> : x \in {y \in DOMAIN L.parent : y.kind = "spine"}},
     texts |-> {<<key, L.parent[L.texts[key]]>> : key \in DOMAIN L.texts}]

oneNodePerSlot(par) ==
    \A x, y \in DOMAIN par : (par[x].kind = "slot" /\ par[x] = par[y]) => x = y

C17_BuilderIsIdempotent ==
    [][passRan
       => LET again == compose(Layout')
          IN  /\ edgesOf(again) = edgesOf(Layout')
              /\ oneNodePerSlot(parent')
              /\ oneNodePerSlot(again.parent)]_vars

\* the builder ran again over rigs A and B: a Text it had attached was replaced
C17_Witness ==
    /\ "A" \in DOMAIN spines
    /\ "B" \in DOMAIN spines
    /\ parent[spineNode(spines["B"])] = inSlot(spines["A"], spine_B)
    /\ \E x \in DOMAIN parent : x.kind = "text" /\ parent[x] = noParent
    /\ \E x \in DOMAIN parent : x.kind = "text" /\ parent[x] = inSlot(spines["A"], text_t)

(* C18: after every step that ran the builder, each live rig has exactly one
   parent: the layout itself or a slot of another live rig that has that
   slot; a rig on no slot is a child of the layout, a rig on a slot is not. *)
C18_ExactlyOneParent ==
    [][passRan
       => \A id \in DOMAIN spines' :
             LET p == parent'[spineNode(spines'[id])]
             IN  \/ p = inScene
                 \/ /\ p.kind = "slot"
                    /\ p.of # spines'[id]
                    /\ \E P \in DOMAIN spines' :
                          spines'[P] = p.of /\ p.slot \in namesOf(slots'[P])]_vars

\* after a pass one rig is a child of the layout and another sits on its slot
C18_Witness ==
    /\ "A" \in DOMAIN spines
    /\ "B" \in DOMAIN spines
    /\ parent[spineNode(spines["A"])] = inScene
    /\ parent[spineNode(spines["B"])] = inSlot(spines["A"], spine_B)
    /\ calls > 0

\* getSpine(spineID) is undefined
noSpine(spineID) == spineOf(spineID) = 0

\* getAnimations(): the keys of the registry
getAnimations == DOMAIN animations

\* the children of the layout
children == {x \in DOMAIN parent : parent[x] = inScene}

(* C19: after reset() the layout holds no rig instance (getSpine is undefined
   for every id), getAnimations() is empty, no Text is registered and the
   layout has no children. *)
C19_ResetEmptiesTheLayout ==
    [][reset
       => /\ \A id \in SpineID : noSpine(id)'
          /\ getAnimations' = {}
          /\ DOMAIN texts' = {}
          /\ children' = {}]_vars

\* a layout that had rigs and a Text was reset
C19_Witness ==
    /\ spines = EmptyMap
    /\ calls > 0
    /\ \E x \in DOMAIN parent : x.kind = "text"

(* C20: playAnimationsQueue(queue) stops everything that is playing before it
   plays the first entry: no track entry set before the call is still playing
   after it, and the bookkeeping holds only clips the call itself started. *)
C20_QueueStopsAllFirst ==
    [][\A q \in Queues :
          PlayQueue(q)
          => /\ \A i \in DOMAIN plays :
                   plays[i].status = "playing" => plays'[i].status # "playing"
             /\ \A id \in SpineID :
                   \A a \in DOMAIN tracksOf(activeAnimations', id)
                            \cup DOMAIN tracksOf(loopingAnimations', id) :
                      \E j \in DOMAIN plays' \ DOMAIN plays :
                         plays'[j].spineID = id /\ plays'[j].animation = a]_vars

---------------------------------------------------------------------------
(* C21: the reaction that plays the next base name of a clip whose raw name
   carries a "next" modifier runs when that clip has completed, and only
   then: at the step that fans the next base name out, the clip has completed
   in the runtime, and after the step every clip registered under the next
   base name is playing. *)
C21_NextFansOutOnCompletionOnly ==
    [][\A i \in DOMAIN plays :
          (plays[i].next # <<>> /\ ThenNext(i))
          => /\ plays[i].status = "completed"
             /\ \A k \in 1..Len(pairsOf(plays[i].next)) :
                   \E j \in DOMAIN plays' :
                      /\ plays'[j].spineID = pairsOf(plays[i].next)[k][1]
                      /\ plays'[j].animation = pairsOf(plays[i].next)[k][2]
                      /\ plays'[j].status = "playing"]_vars

---------------------------------------------------------------------------
(* The asset groups a rig is instantiated from: getSpineAssetsFromManifest
   (part_004) over the bundles of a manifest, and loadSpines of the editor's
   file source (SpineLayoutEditor.ts) over the files of a folder.  File names
   are character sequences. *)

\* how many asset files there are at most, and how many bundles
MaxFiles == 4
Bundles  == 2

h_atlas == <<"h", ".", "a", "t", "l", "a", "s">>
h_json  == <<"h", ".", "j", "s", "o", "n">>
h_skel  == <<"h", ".", "s", "k", "e", "l">>
h_png   == <<"h", ".", "p", "n", "g">>
h_2_png == <<"h", "_", "2", ".", "p", "n", "g">>
k_atlas == <<"k", ".", "a", "t", "l", "a", "s">>
k_json  == <<"k", ".", "j", "s", "o", "n">>
k_png   == <<"k", ".", "p", "n", "g">>

\* the file names in use, in the order a listing gives them
AssetOrder == <<h_2_png, h_atlas, h_json, h_png, h_skel, k_atlas, k_json, k_png>>

AssetFiles == {AssetOrder[i] : i \in 1..Len(AssetOrder)}

\* the inputs: at most MaxFiles files, each listed by one bundle
AssetSets ==
    UNION {[F -> 1..Bundles] :
              F \in {G \in SUBSET AssetFiles : Cardinality(G) <= MaxFiles}}

\* the listing of a set of files
listing(F) == SelectSeq(AssetOrder, LAMBDA f : f \in F)

\* manifest.bundles: bundle b lists the files given to it (one alias each)
bundleOf(b) == listing({f \in DOMAIN files : files[f] = b})

\* String.prototype.endsWith
endsWith(s, sub) == matchAt(s, sub, Len(s) - Len(sub) + 1)

\* (mutant) every name is found
arrayIncludesAny(list, x) == TRUE

\* Array.prototype.includes
arrayIncludes(list, x) == \E i \in 1..Len(list) : list[i] = x

\* getAssetByType(bundle, type) for an array of assets: the aliases that end
\* with the type
getAssetByType(bundle, type) == SelectSeq(bundle, LAMBDA alias : endsWith(alias, type))

\* atlases?.forEach of lines 678-694 for one bundle
RECURSIVE atlasesEach(_, _, _)
atlasesEach(out, bundle, atlases) ==
    IF atlases = <<>> THEN out
    ELSE LET atlas   == Head(atlases)
             atlasID == replaceFirst(atlas, <<".", "a", "t", "l", "a", "s">>)
             json    == atlasID \o <<".", "j", "s", "o", "n">>
             skel    == atlasID \o <<".", "s", "k", "e", "l">>
             png     == atlasID \o <<".", "p", "n", "g">>
             hasJSON == arrayIncludes(getAssetByType(bundle, <<"j", "s", "o", "n">>), json)
             hasSKEL == arrayIncludes(getAssetByType(bundle, <<"s", "k", "e", "l">>), skel)
             hasPNG  == arrayIncludes(getAssetByType(bundle, <<"p", "n", "g">>), png)
         IN  atlasesEach(
               IF (hasJSON \/ hasSKEL) /\ hasPNG
               THEN Append(out, [atlas |-> atlas,
                                 skel |-> IF hasJSON THEN json ELSE skel,
                                 texture |-> png])
               ELSE out,
               bundle, Tail(atlases))

\* manifest.bundles.forEach of lines 671-695, from bundle b on
RECURSIVE bundlesEach(_, _)
bundlesEach(out, b) ==
    IF b > Bundles THEN out
    ELSE bundlesEach(atlasesEach(out, bundleOf(b),
                                 getAssetByType(bundleOf(b), <<"a", "t", "l", "a", "s">>)),
                     b + 1)

getSpineAssetsFromManifest == bundlesEach(<<>>, 1)

\* file.name.split('.'): the first two pieces ([name, ext] of line 461)
splitDot(s) ==
    LET rest == IF includes(s, <<".">>)
                THEN SubSeq(s, indexOf(s, <<".">>) + 1, Len(s)) ELSE <<>>
    IN  [name |-> splitHead(s, <<".">>), ext |-> splitHead(rest, <<".">>)]

\* the digits in use
Digits == {"2"}

\* length of the run of digits of s that ends at position i
RECURSIVE digitRun(_, _)
digitRun(s, i) == IF i >= 1 /\ s[i] \in Digits THEN 1 + digitRun(s, i - 1) ELSE 0

\* name.replace(/_\d+$/, ''): a trailing "_" and digits removed
stripPage(name) ==
    LET d == digitRun(name, Len(name))
    IN  IF d > 0 /\ Len(name) - d >= 1 /\ name[Len(name) - d] = "_"
        THEN SubSeq(name, 1, Len(name) - d - 1)
        ELSE name

\* a file handle that is null
null == <<>>

\* fileMap.has(name) / fileMap.get(name), the map kept as the sequence of its
\* entries in insertion order
entryOf(fileMap, name) == {i \in 1..Len(fileMap) : fileMap[i].name = name}

\* if (!fileMap.has(name)) fileMap.set(name, { skel: null, atlas: null, png: [] })
withEntry(fileMap, name) ==
    IF entryOf(fileMap, name) # {} THEN fileMap
    ELSE Append(fileMap, [name |-> name, skel |-> null, atlas |-> null, png |-> <<>>])

\* files.forEach of convertToSpinesMap (lines 460-490)
RECURSIVE filesEach(_, _)
filesEach(fileMap, list) ==
    IF list = <<>> THEN fileMap
    ELSE LET file == Head(list)
             name == splitDot(file).name
             ext  == splitDot(file).ext
             baseName == stripPage(name)
             m1 == withEntry(fileMap, name)
             m2 == withEntry(fileMap, baseName)
             i1 == CHOOSE i \in entryOf(m1, name) : TRUE
             i2 == CHOOSE i \in entryOf(m2, baseName) : TRUE
         IN  filesEach(
               IF ext = <<"s", "k", "e", "l">> \/ ext = <<"j", "s", "o", "n">>
               THEN [m1 EXCEPT ![i1].skel = file]
               ELSE IF ext = <<"a", "t", "l", "a", "s">>
               THEN [m1 EXCEPT ![i1].atlas = file]
               ELSE IF ext = <<"p", "n", "g">>
               THEN [m2 EXCEPT ![i2].png = Append(@, file)]
               ELSE fileMap,
               Tail(list))

convertToSpinesMap(list) == filesEach(<<>>, list)

\* isFullSetOfSpineFiles(files); files.png is an array and never null
isFullSetOfSpineFiles(set) ==
    LET hasRequired == set.atlas # null
        hasOptional == set.skel # null
    IN  hasRequired /\ hasOptional

\* the loop of loadSpines (lines 415-445); every file can be read, so that
\* loadSpineFiles returns the data of the set it is given
RECURSIVE setsEach(_, _)
setsEach(out, sets) ==
    IF sets = <<>> THEN out
    ELSE setsEach(
           IF isFullSetOfSpineFiles(Head(sets)) /\ Len(Head(sets).png) > 0
           THEN Append(out, [skelFile |-> Head(sets).skel,
                             atlasFile |-> Head(sets).atlas,
                             textureFiles |-> Head(sets).png])
           ELSE out,
           Tail(sets))

loadSpines(list) == setsEach(<<>>, convertToSpinesMap(list))

InitAssets ==
    /\ Constructed(EmptyLayout)
    /\ NoName
    /\ files \in AssetSets
    /\ spinesMap = <<>>
    /\ loadedSpines = <<>>
    /\ NoTools

\* createInstancesFromManifest asks for the groups of the manifest
GetSpineAssets ==
    /\ spinesMap = <<>>
    /\ spinesMap' = <<getSpineAssetsFromManifest>>
    /\ UNCHANGED <<spines, instances, animations, statesAnimations,
                   activeAnimations, loopingAnimations, tracks, plays, tasks,
                   queue, lastCall, calls, sceneVars, codecVars, files,
                   loadedSpines, toolVars>>

\* renderSpines loads the files of the folder
LoadSpines ==
    /\ loadedSpines = <<>>
    /\ loadedSpines' = <<loadSpines(listing(DOMAIN files))>>
    /\ UNCHANGED <<spines, instances, animations, statesAnimations,
                   activeAnimations, loopingAnimations, tracks, plays, tasks,
                   queue, lastCall, calls, sceneVars, codecVars, files,
                   spinesMap, toolVars>>

NextAssets == GetSpineAssets \/ LoadSpines

SpecAssets == InitAssets /\ [][NextAssets]_vars

(* C22: every asset group a rig is instantiated from has one skeleton entry,
   one atlas entry and at least one image entry of the same base name, all
   among the files of the bundle (manifest) or of the folder (file source);
   and every base name that has the three gives a group, whatever other
   groups lack: an incomplete group is dropped and stops no other group. *)
AssetBases == {<<"h">>, <<"k">>}

atlasOf(base) == base \o <<".", "a", "t", "l", "a", "s">>

skeletonsOf(base) ==
    {base \o <<".", "j", "s", "o", "n">>, base \o <<".", "s", "k", "e", "l">>}

pageOf(base) == base \o <<".", "p", "n", "g">>

imagesOf(base) == {pageOf(base), base \o <<"_", "2", ".", "p", "n", "g">>}

filesIn(b) == {f \in DOMAIN files : files[f] = b}


C22_GroupsAreCompleteSets ==
    /\ spinesMap # <<>>
       => /\ \A g \in namesOf(spinesMap[1]) :
                \E base \in AssetBases : \E b \in 1..Bundles :
                   /\ g.atlas = atlasOf(base)
                   /\ g.skel \in skeletonsOf(base)
                   /\ g.texture \in imagesOf(base)
                   /\ {g.atlas, g.skel, g.texture} \subseteq filesIn(b)
          /\ \A base \in AssetBases : \A b \in 1..Bundles :
                (/\ atlasOf(base) \in filesIn(b)
                 /\ skeletonsOf(base) \cap filesIn(b) # {}
                 /\ pageOf(base) \in filesIn(b))
                => \E g \in namesOf(spinesMap[1]) : g.atlas = atlasOf(base)
    /\ loadedSpines # <<>>
       => /\ \A g \in namesOf(loadedSpines[1]) :
                \E base \in AssetBases :
                   /\ g.atlasFile = atlasOf(base)
                   /\ g.skelFile \in skeletonsOf(base)
                   /\ g.textureFiles # <<>>
                   /\ namesOf(g.textureFiles) \subseteq imagesOf(base)
                   /\ {g.atlasFile, g.skelFile} \cup namesOf(g.textureFiles)
                         \subseteq DOMAIN files
          /\ \A base \in AssetBases :
                (/\ atlasOf(base) \in DOMAIN files
                 /\ skeletonsOf(base) \cap DOMAIN files # {}
                 /\ imagesOf(base) \cap DOMAIN files # {})
                => \E g \in namesOf(loadedSpines[1]) : g.atlasFile = atlasOf(base)

\* both sources were asked about files with a complete group "h" and an atlas
\* "k" without its skeleton and image: each gave the group "h" alone
C22_Witness ==
    /\ spinesMap # <<>>
    /\ loadedSpines # <<>>
    /\ k_atlas \in DOMAIN files
    /\ Len(spinesMap[1]) = 1
    /\ spinesMap[1][1].atlas = h_atlas
    /\ Len(loadedSpines[1]) = 1
    /\ loadedSpines[1][1].atlasFile = h_atlas

---------------------------------------------------------------------------
(* C23: in every reachable state no track index of a rig is recorded in both
   the active (one-shot) map and the looping map of that rig. *)
C23_NoTrackInBothMaps ==
    \A id \in SpineID :
        \A a \in DOMAIN tracksOf(activeAnimations, id) :
            \A l \in DOMAIN tracksOf(loopingAnimations, id) :
                activeAnimations[id][a] # loopingAnimations[id][l]

---------------------------------------------------------------------------
(* C24: playInstanceAnimation for a clip that is recorded in the active map
   or in the looping map of its rig changes nothing: no setAnimation is
   issued (the runtime tracks are unchanged, no listener is added) and the
   clip gets no second track in the bookkeeping. *)
C24_TrackedClipIsNotRetriggered ==
    [][\A c \in Clips :
          (/\ c[1] \in DOMAIN spines
           /\ c[2] \in DOMAIN tracksOf(activeAnimations, c[1])
                       \cup DOMAIN tracksOf(loopingAnimations, c[1])
           /\ PlayInstance(c[1], c[2]))
          => /\ tracks' = tracks
             /\ plays' = plays
             /\ activeAnimations' = activeAnimations
             /\ loopingAnimations' = loopingAnimations]_vars

---------------------------------------------------------------------------
(* C25: the complete listener of a play call is one-time: once it has run, a
   later complete event on the same rig does not make it release a
   bookkeeping entry again.  The listeners of an instance run in the order
   they were added, so the entry of a clip name is released by the first
   listener of the instance that was registered for that name. *)
releasesEntry(i) ==
    /\ plays[i].animation \in DOMAIN tracksOf(activeAnimations, plays[i].spineID)
    /\ \A j \in listenersOf(plays, plays[i].inst) :
          plays[j].animation = plays[i].animation => i <= j

C25_ListenerIsOneTime ==
    [][\A id \in DOMAIN tracks : \A t \in DOMAIN tracks[id] :
          Complete(id, t)
          => \A i \in listenersOf(plays, spines[id]) :
                plays[i].fired => ~releasesEntry(i)]_vars

---------------------------------------------------------------------------
(* C26: for every raw name that carries a next modifier, alone or with other
   modifiers before or after it, the next animation read from it is a base
   name: it is not empty, holds no modifier token and stripModificators
   leaves it as it is; for a raw name without a next modifier it is
   undefined. *)
isBaseName(name) ==
    /\ name # <<>>
    /\ \A k \in 1..Len(modificators) : ~includes(name, modificators[k])
    /\ stripModificators(name) = name

C26_NextTargetIsBaseName ==
    parsed # <<>>
    => IF includes(raw, modNext) THEN isBaseName(parsed[1]) ELSE parsed[1] = <<>>

---------------------------------------------------------------------------
(* C27: after any sequence of registrations, re-registrations of a rig id
   included, no member list of a state group holds a base name twice; and
   registering once more a raw name whose base name is a member of its state
   group leaves every member list as it is. *)
C27_MembersAreDeduplicated ==
    /\ \A st \in DOMAIN statesAnimations :
          \A m \in namesOf(statesAnimations[st]) :
             occurrences(statesAnimations[st], m) = 1
    /\ \A data \in IngestData : \A a \in namesOf(data.animations) :
          (/\ getStateName(stripModificators(a)) \in DOMAIN statesAnimations
           /\ stripModificators(a)
                 \in namesOf(statesAnimations[getStateName(stripModificators(a))]))
          => registerAnimation([animations |-> animations,
                                statesAnimations |-> statesAnimations],
                               data.spineID, a).statesAnimations = statesAnimations

\* rig A, whose clips are the two members of state "intro", was registered
\* more than once
C27_Witness ==
    /\ "A" \in DOMAIN spines
    /\ intro \in DOMAIN statesAnimations
    /\ Len(statesAnimations[intro]) = 2
    /\ \E j \in 1..Len(animations[intro_a]["A"]) : j > 1

---------------------------------------------------------------------------
(* playAnimationsQueue over entries that name nothing.  The reactions of
   promises are microtasks: the event loop runs every one of them before the
   next macrotask, so the continuation of an await that can continue, and a
   .then that is due, do run (weak fairness). *)

state_jump == <<"s", "t", "a", "t", "e", "_", "j", "u", "m", "p">>

\* queues with an empty entry, a state prefix without a name, an unknown
\* state and an unknown base name, before and after entries that play
SkipQueues ==
    { << <<>>, state_, state_jump, intro, jump >>,
      << state_intro, state_jump, intro, <<>> >> }

NextQueue ==
    \/ \E q \in SkipQueues : PlayQueue(q)
    \/ QueueResume
    \/ \E i \in DOMAIN plays : ThenNext(i)
    \/ \E id \in DOMAIN tracks : \E t \in DOMAIN tracks[id] : Complete(id, t)
    \/ \E c \in Clips : PlayInstance(c[1], c[2])
    \/ stopAll
    \/ \E c \in Clips : stopAnimation(c[1], c[2])
    \/ reset

\* a reaction that is due
Microtask == QueueResume \/ \E i \in DOMAIN plays : ThenNext(i)

SpecQueue == Init /\ [][NextQueue]_vars /\ WF_vars(Microtask)

(* C28: an entry of the queue for which nothing is played (an empty entry, an
   unknown base name, an unknown state; a state prefix without a state name
   is passed over at once) does not stop the queue: whenever the queue waits
   on an entry that collected no promise, it leaves that wait, and it leaves
   it only for a later entry or for its end; the queue is done once it is
   past its last entry. *)
\* the queue waits on an entry that collected no promise
waitsOnNothing ==
    /\ queue.status = "waiting"
    /\ collected(plays, "queue", queue.idx) = {}

C28_UnresolvableEntryIsSkipped ==
    /\ waitsOnNothing ~> ~waitsOnNothing
    /\ [][waitsOnNothing => (queue'.idx > queue.idx \/ UNCHANGED queue)]_vars
    /\ [](queue.idx > Len(queue.entries) => queue.status = "done")

\* the queue went past entries that played nothing, played a later entry and
\* is done
C28_Witness ==
    /\ queue.status = "done"
    /\ Len(queue.entries) = 5
    /\ \E i \in DOMAIN plays : plays[i].owner = "queue" /\ plays[i].ref = 5
    /\ \A i \in DOMAIN plays : plays[i].owner = "queue" => plays[i].ref = 5

---------------------------------------------------------------------------
(* C29: for every clip a playInstanceAnimation call starts, the loop flag
   given to setAnimation is true exactly when the raw name of that clip has a
   loop modifier among its modifiers, and the clip is recorded in the looping
   map in that case and in the active map otherwise, never in the other map.
   A raw name is a base name followed by modifier tokens. *)
ClipBases == {walk, jump, intro_a, intro_b}

\* the modifier tokens other than loop that the clips in use carry
NextTokens == {<<>>, <<"_", "n", "e", "x", "t", "_">> \o walk,
               <<"_", "n", "e", "x", "t", "_">> \o jump}

carriesLoop(rawName) ==
    \E base \in ClipBases : \E before, after \in NextTokens :
        rawName = base \o before \o <<"_", "l", "o", "o", "p">> \o after

recordedIn(reg, spineID, animation) == animation \in DOMAIN tracksOf(reg, spineID)

C29_LoopFlagIsTheClipsOwn ==
    [][\A j \in DOMAIN plays' \ DOMAIN plays :
          LET p == plays'[j]
          IN  /\ p.loop <=> carriesLoop(p.animation)
              /\ \A t \in DOMAIN tracks'[p.spineID] :
                    tracks'[p.spineID][t].by = j
                    => /\ t = p.trackID
                       /\ tracks'[p.spineID][t].animation = p.animation
                       /\ tracks'[p.spineID][t].loop <=> carriesLoop(p.animation)
              /\ recordedIn(loopingAnimations', p.spineID, p.animation)
                    <=> carriesLoop(p.animation)
              /\ recordedIn(activeAnimations', p.spineID, p.animation)
                    <=> ~carriesLoop(p.animation)]_vars

\* a looping clip and a one-shot clip that names a next animation are playing,
\* each on the track its call set
C29_Witness ==
    /\ \E i \in DOMAIN plays :
          /\ plays[i].animation = walk_loop
          /\ plays[i].status = "playing"
          /\ recordedIn(loopingAnimations, plays[i].spineID, walk_loop)
          /\ tracks[plays[i].spineID][plays[i].trackID].loop
    /\ \E i \in DOMAIN plays :
          /\ plays[i].animation = jump_next_walk
          /\ plays[i].status = "playing"
          /\ recordedIn(activeAnimations, plays[i].spineID, jump_next_walk)
          /\ ~tracks[plays[i].spineID][plays[i].trackID].loop

---------------------------------------------------------------------------
(* C30: stopAnimation for a clip that is in neither map of its rig, and
   stopAll when nothing is playing (no clip is recorded and every track entry
   of the runtime has completed), leave the registry, the state groups, the
   bookkeeping of every clip and the plays unchanged, and stopAnimation
   leaves the runtime tracks unchanged as well; a stopAll right after a
   stopAll changes nothing any more. *)
nothingPlaying ==
    /\ \A id \in SpineID : recorded(id) = {}
    /\ \A id \in DOMAIN spines : \A t \in DOMAIN tracks[id] : tracks[id][t].done

C30_StoppingTheStoppedChangesNothing ==
    [][/\ \A c \in Clips :
            (/\ ~recordedIn(activeAnimations, c[1], c[2])
             /\ ~recordedIn(loopingAnimations, c[1], c[2])
             /\ stopAnimation(c[1], c[2]))
            => /\ animations' = animations
               /\ statesAnimations' = statesAnimations
               /\ \A id \in SpineID : recorded(id)' = recorded(id)
               /\ tracks' = tracks
               /\ plays' = plays
       /\ stopAll
            => /\ animations' = animations
               /\ statesAnimations' = statesAnimations
               /\ nothingPlaying
                     => /\ \A id \in SpineID : recorded(id)' = recorded(id)
                        /\ plays' = plays
               /\ stopAllOn(Engine') = Engine']_vars

\* clips were played and then stopped: nothing is recorded, nothing plays, and
\* stop calls were made after that
C30_Witness ==
    /\ \E i \in DOMAIN plays : plays[i].status = "cleared"
    /\ \A i \in DOMAIN plays : plays[i].status # "playing"
    /\ \A id \in SpineID : recorded(id) = {}
    /\ \A id \in DOMAIN spines : tracks[id] = EmptyMap
    /\ calls > Len(plays) + 1
    /\ queue.status = "idle"
    /\ spines # EmptyMap

---------------------------------------------------------------------------
(* C31: the promise of a one-shot clip is resolved, and the clip's entry in
   the active map released, by the completion of that clip only: a complete
   event of another track of the same rig leaves the promise of a clip that
   is still playing as it was and leaves the clip in the active map. *)
C31_OnlyOwnCompletionReleases ==
    [][\A id \in DOMAIN tracks : \A t \in DOMAIN tracks[id] :
          Complete(id, t)
          => \A i \in listenersOf(plays, spines[id]) :
                (/\ ~plays[i].loop
                 /\ plays[i].status = "playing"
                 /\ plays[i].trackID # t)
                => /\ plays'[i].resolved = plays[i].resolved
                   /\ recordedIn(activeAnimations, id, plays[i].animation)
                         => recordedIn(activeAnimations', id, plays[i].animation)]_vars

---------------------------------------------------------------------------
(* C32: the track bookkeeping does not outlive the instance it was made for:
   in every reachable state each clip recorded in the active or the looping
   map of a rig was started on the instance that is registered under that
   rig's id now; after reset(), and after an instance is replaced under its
   id, no entry of the destroyed instance is left. *)
startedOnLive(spineID, animation) ==
    \E i \in DOMAIN plays :
        /\ plays[i].spineID = spineID
        /\ plays[i].animation = animation
        /\ plays[i].inst = spineOf(spineID)

C32_BookkeepingDiesWithTheInstance ==
    \A id \in SpineID :
        \A a \in DOMAIN tracksOf(activeAnimations, id)
                 \cup DOMAIN tracksOf(loopingAnimations, id) :
            startedOnLive(id, a)

---------------------------------------------------------------------------
(* C33: the bookkeeping agrees with the runtime in every reachable state: for
   every entry clip -> t of the active or the looping map of a rig, track t
   of that rig holds that clip in the runtime; and every clip that was
   started and has neither completed nor been stopped (its track entry is
   still playing) is recorded in the map its loop flag names. *)
holdsOnTrack(spineID, animation, trackID) ==
    /\ trackID \in DOMAIN tracksOf(tracks, spineID)
    /\ tracks[spineID][trackID].animation = animation

C33_BookkeepingAgreesWithRuntime ==
    /\ \A id \in SpineID :
          /\ \A a \in DOMAIN tracksOf(activeAnimations, id) :
                holdsOnTrack(id, a, activeAnimations[id][a])
          /\ \A a \in DOMAIN tracksOf(loopingAnimations, id) :
                holdsOnTrack(id, a, loopingAnimations[id][a])
    /\ \A i \in DOMAIN plays :
          plays[i].status = "playing"
          => recordedIn(IF plays[i].loop THEN loopingAnimations ELSE activeAnimations,
                        plays[i].spineID, plays[i].animation)

---------------------------------------------------------------------------
(* Composition over rigs whose sockets name themselves or each other. *)

spine_A == <<"s", "p", "i", "n", "e", "_", "A">>
spine_C == <<"s", "p", "i", "n", "e", "_", "C">>

\* a rig with a socket for itself
DataSelf == [spineID |-> "C", animations |-> <<walk>>,
             slots |-> <<body, spine_C>>, textures |-> TRUE]
\* rig B with a socket for rig A, whose skeleton has a socket for rig B
DataBack == [spineID |-> "B", animations |-> <<jump>>,
             slots |-> <<spine_A>>, textures |-> TRUE]

\* rig B reloaded with an atlas that has a page without a texture
DataBad == [spineID |-> "B", animations |-> <<jump>>,
            slots |-> <<body>>, textures |-> FALSE]

\* the rigs createInstanceFromData can be called with
ComposeData == {DataA, DataB, DataSelf, DataBack, DataBad}

\* the arrays createInstancesFromDataArray can be called with
ComposeBatches == {<<DataBack, DataA>>, <<DataB, DataSelf>>, <<DataA, DataD>>}

NextCompose ==
    \/ \E data \in ComposeData : createInstanceFromData(data)
    \/ \E data \in ComposeBatches : createInstancesFromDataArray(data)
    \/ reset
    \/ \E c \in Clips : PlayInstance(c[1], c[2])

\* the layout constructed with the manifest, then the ingestion calls
SpecCompose == Init /\ [][NextCompose]_vars

\* the step ran attachBones and attachTexts to their end
composed ==
    \/ \E data \in ComposeData : data.textures /\ createInstanceFromData(data)
    \/ \E data \in ComposeBatches : ~throws(data) /\ createInstancesFromDataArray(data)

\* the rig a rig is attached to, k sockets up; <<>> when the chain of
\* parents ends before
RECURSIVE ancestor(_, _, _)
ancestor(par, x, k) ==
    IF k = 0 THEN x
    ELSE IF x \in DOMAIN par /\ par[x].kind = "slot"
    THEN ancestor(par, spineNode(par[x].of), k - 1)
    ELSE <<>>

\* the chain of parents of a rig ends at the layout
reachesScene(par, x) ==
    \E k \in 0..Cardinality(DOMAIN par) :
        /\ ancestor(par, x, k) \in DOMAIN par
        /\ par[ancestor(par, x, k)] = inScene

isOwnAncestor(par, x) ==
    \E k \in 1..Cardinality(DOMAIN par) : ancestor(par, x, k) = x

(* C34: after every composition pass, over any rigs and socket names, the
   composition graph is a forest rooted at the scene: no live rig is its own
   ancestor and the chain of parents of every live rig ends at the layout. *)
C34_CompositionIsForestRootedAtScene ==
    [][composed
       => \A id \in DOMAIN spines' :
             /\ ~isOwnAncestor(parent', spineNode(spines'[id]))
             /\ reachesScene(parent', spineNode(spines'[id]))]_vars

---------------------------------------------------------------------------
(* The queue when every clip the runtime holds completes in the end.  The
   entries start one-shot clips only; nothing is stopped and no instance is
   destroyed; other plays go on beside the queue.  The runtime keeps firing
   complete events while a one-shot entry is due (weak fairness), and the
   promise reactions run as microtasks. *)

jump_jump == <<"j", "u", "m", "p", "_", "j", "u", "m", "p">>

\* sequences of states and base names whose clips are one-shot, in both
\* orders, one with an entry that names nothing
LiveQueues ==
    { <<jump, state_intro>>,
      <<state_intro, jump_jump, jump>> }

NextLive ==
    \/ \E q \in LiveQueues : PlayQueue(q)
    \/ QueueResume
    \/ \E i \in DOMAIN plays : ThenNext(i)
    \/ \E id \in DOMAIN tracks : \E t \in DOMAIN tracks[id] : Complete(id, t)
    \/ \E c \in Clips : PlayInstance(c[1], c[2])

\* a complete event of some track
Completion == \E id \in DOMAIN tracks : \E t \in DOMAIN tracks[id] : Complete(id, t)

SpecLive ==
    Init /\ [][NextLive]_vars /\ WF_vars(Microtask) /\ WF_vars(Completion)

(* C35: when no clip the queue starts is loop-flagged, nothing is stopped and
   the runtime goes on completing the clips it holds, playAnimationsQueue
   resolves for every sequence: a queue that waits on an entry is done in the
   end, and it is done only past its last entry, every entry dispatched in
   order (the index never goes back and never skips an entry that plays). *)
C35_QueueResolvesInTheEnd ==
    /\ (queue.status = "waiting") ~> (queue.status = "done")
    /\ [](queue.status = "done" => queue.idx = Len(queue.entries) + 1)
    /\ [][queue.status = "waiting"
          => \/ UNCHANGED queue
             \/ /\ queue'.idx > queue.idx
                /\ \A k \in (queue.idx + 1)..(queue'.idx - 1) :
                      /\ k \in 1..Len(queue.entries)
                      /\ pairsOf(queue.entries[k]) = <<>>
                      /\ pairsOfState(getStateName(queue.entries[k])) = <<>>]_vars

\* a queue of three entries is done: the clips of its first and of its last
\* entry were started and have completed, the entry between them was reached
C35_Witness ==
    /\ queue.status = "done"
    /\ Len(queue.entries) = 3
    /\ \A k \in {1, 3} :
          \E i \in DOMAIN plays :
             /\ plays[i].owner = "queue"
             /\ plays[i].ref = k
             /\ plays[i].status = "completed"

---------------------------------------------------------------------------
(* C36: a createInstanceFromData call that fails for a missing texture page
   leaves the layout as it was: no instance is stored or destroyed (the
   instance registered under the same id stays), no registry entry and no
   state member is added, the scene graph and the texts are as before, and
   so are the bookkeeping, the runtime tracks and the listeners. *)
C36_FailedIngestionChangesNothing ==
    [][\A data \in ComposeData :
          (~data.textures /\ createInstanceFromData(data))
          => UNCHANGED <<spines, instances, animations, statesAnimations,
                         slots, parent, texts, activeAnimations,
                         loopingAnimations, tracks, plays, tasks, queue>>]_vars

\* two calls were made on the layout of the manifest, one of them started a
\* clip; rig B, its registry entries and its place in the scene are those of
\* the manifest: the other call was the failing reload of rig B
C36_Witness ==
    /\ calls = 2
    /\ Len(plays) = 1
    /\ plays[1].status = "playing"
    /\ instances = 2
    /\ spines = [A |-> 1, B |-> 2]
    /\ parent[spineNode(2)] = inSlot(1, spine_B)
    /\ animations[jump] = [B |-> <<jump_next_walk>>]

(***************************************************************************)
(* The folder watcher of the layout editor: FileSystemController.init,     *)
(* watch and close, driven by SpineFSLoader.init and close.  A poll reads  *)
(* one directory entry per step (for await, await entry.getFile()), so the *)
(* calls of the editor fall between two entries of a poll under way.       *)
(***************************************************************************)
\* everything of the layout, the codec and the asset loaders
layoutVars == <<spines, instances, animations, statesAnimations,
                activeAnimations, loopingAnimations, tracks, plays, tasks,
                queue, lastCall, calls, sceneVars, codecVars, assetVars>>

\* watch() calls made on one controller, and time stamps a file can take
MaxLoops == 2
MaxStamp == 2

\* what init() can meet when the store holds no handle: the folder picker
\* gives a folder, the picker is cancelled, or no click has been seen yet
Outcomes == {"picked", "cancelled", "noClick"}

\* FileSystemController.init(): the stored handle, else selectFolder()
fsInit(c, outcome) ==
    IF c.stored THEN [c EXCEPT !.dirHandle = TRUE]
    ELSE IF outcome = "picked" THEN [c EXCEPT !.dirHandle = TRUE, !.stored = TRUE]
    ELSE IF outcome = "cancelled" THEN [c EXCEPT !.dirHandle = FALSE]
    ELSE c

\* watch(onChange, fileTypes) up to its first await: nothing without a
\* handle, else a poll that starts at the first entry with no changed file
watch(c) ==
    IF ~c.dirHandle THEN c
    ELSE [c EXCEPT !.loops = Append(@, [pc |-> "polling", pos |-> 1,
                                        changedFiles |-> {}])]

\* FileSystemController.close()
close(c) ==
    [c EXCEPT !.dirHandle = FALSE, !.stored = FALSE,
              !.filesHash = [f \in DOMAIN @ |-> 0], !.closed = TRUE]

\* SpineFSLoader.init(): await this.fs.init(), then this.fs.watch(...)
EditorInit(outcome) ==
    /\ Len(fsc.loops) < MaxLoops
    /\ fsc' = [watch(fsInit(fsc, outcome)) EXCEPT !.closed = FALSE]
    /\ UNCHANGED <<layoutVars, preloader, sounds>>

\* SpineFSLoader.close(): this.fs.close()
EditorClose ==
    /\ ~fsc.closed
    /\ fsc' = close(fsc)
    /\ UNCHANGED <<layoutVars, preloader, sounds>>

\* one round of the for await loop of watch(): the file of the entry, its
\* time stamp against filesHash
PollEntry(l) ==
    /\ fsc.loops[l].pc = "polling"
    /\ fsc.loops[l].pos <= Len(DirFiles)
    /\ LET f == fsc.loops[l].pos
           changed == fsc.lastModified[f] # fsc.filesHash[f]
       IN  fsc' = [fsc EXCEPT
                     !.loops[l].pos = @ + 1,
                     !.loops[l].changedFiles = IF changed THEN @ \cup {f} ELSE @,
                     !.filesHash[f] = IF changed THEN fsc.lastModified[f] ELSE @]
    /\ UNCHANGED <<layoutVars, preloader, sounds>>

\* the end of the loop: onChange(changedFiles) when a file changed, then
\* setTimeout(() => this.watch(...), 1000); late records a call of onChange
\* made after close() with no init() since
PollEnd(l) ==
    /\ fsc.loops[l].pc = "polling"
    /\ fsc.loops[l].pos = Len(DirFiles) + 1
    /\ fsc' = [fsc EXCEPT
                 !.loops[l] = [pc |-> "timer", pos |-> 1, changedFiles |-> {}],
                 !.late = @ \/ (fsc.loops[l].changedFiles # {} /\ fsc.closed)]
    /\ UNCHANGED <<layoutVars, preloader, sounds>>

\* the timer of a loop fires: watch() again, which returns at once without
\* a handle and polls again with one
TimerFires(l) ==
    /\ fsc.loops[l].pc = "timer"
    /\ fsc' = [fsc EXCEPT !.loops[l].pc = IF fsc.dirHandle THEN "polling"
                                          ELSE "ended"]
    /\ UNCHANGED <<layoutVars, preloader, sounds>>

\* a file of the folder is saved again
Touch(f) ==
    /\ fsc.lastModified[f] < MaxStamp
    /\ fsc' = [fsc EXCEPT !.lastModified[f] = @ + 1]
    /\ UNCHANGED <<layoutVars, preloader, sounds>>

NextWatch ==
    \/ \E outcome \in Outcomes : EditorInit(outcome)
    \/ EditorClose
    \/ \E l \in 1..MaxLoops : l <= Len(fsc.loops) /\ PollEntry(l)
    \/ \E l \in 1..MaxLoops : l <= Len(fsc.loops) /\ PollEnd(l)
    \/ \E l \in 1..MaxLoops : l <= Len(fsc.loops) /\ TimerFires(l)
    \/ \E f \in 1..Len(DirFiles) : Touch(f)

SpecWatch == Init /\ [][NextWatch]_vars

\* the polling loops that poll or will poll again
liveLoops == {l \in 1..Len(fsc.loops) :
                 \/ fsc.loops[l].pc = "polling"
                 \/ fsc.loops[l].pc = "timer" /\ fsc.dirHandle}

\* C37: between close() and the next init() onChange is never called,
\* whatever poll was under way when close() ran, and a controller never has
\* more than one polling loop alive
C37_NoChangeAfterCloseAndOneLoop ==
    /\ ~fsc.late
    /\ Cardinality(liveLoops) <= 1

(***************************************************************************)
(* The Preloader: the constructor's init() and load() calls, each of which *)
(* waits for the promise of Assets.init and then for Assets.loadBundle.    *)
(* Assets.init of pixi.js marks the asset system at once, does its work    *)
(* behind awaits, and warns and returns when the system is marked already. *)
(***************************************************************************)
\* load() calls made on one Preloader
MaxLoads == 3

\* Assets.init(...) called by a call of the given kind ("init", "load"):
\* the first call starts the initialisation and its promise stands for it
\* (real), a later call has a promise that stands for nothing
assetsInit(p, kind) ==
    [p EXCEPT !.inits = @ + 1,
              !.assets = IF @ = "none" THEN "running" ELSE @,
              !.calls = Append(@, [kind |-> kind, pc |-> "awaitInit",
                                   real |-> p.assets = "none"])]

\* Assets.loadBundle(...) called by call i; early records a bundle load that
\* starts while no initialisation of the asset system has finished
loadBundle(p, i) ==
    [p EXCEPT !.calls[i].pc = "loadBundle",
              !.early = @ \/ p.assets # "ready"]

\* init() of the Preloader up to its await
init(p) == IF p.initiated THEN p ELSE assetsInit(p, "init")

\* load(...) up to its first await
load(p) ==
    IF ~p.initiated THEN assetsInit(p, "load")
    ELSE loadBundle([p EXCEPT !.calls = Append(@, [kind |-> "load",
                                                   pc |-> "start",
                                                   real |-> FALSE])],
                    Len(p.calls) + 1)

\* new Preloader(manifest, basePath) of src/Preloader.ts, whose constructor
\* calls init(), and of part_003, whose constructor is empty
Constructors == {init(NewPreloader), NewPreloader}

InitPreload ==
    /\ Constructed(createInstancesFromManifest)
    /\ NoName
    /\ NoAssets
    /\ fsc = NewController
    /\ sounds = NewSounds
    /\ preloader \in Constructors

\* the game calls load(manifest, bundles)
Load ==
    /\ Cardinality({i \in DOMAIN preloader.calls :
                       preloader.calls[i].kind = "load"}) < MaxLoads
    /\ preloader' = load(preloader)
    /\ UNCHANGED <<layoutVars, fsc, sounds>>

\* the promise of an Assets.init call is fulfilled and the call goes on:
\* this.initiated = true, and in load() Assets.loadBundle
InitResolves(i) ==
    /\ preloader.calls[i].pc = "awaitInit"
    /\ \E p \in {[preloader EXCEPT
                    !.initiated = TRUE,
                    !.assets = IF preloader.calls[i].real THEN "ready" ELSE @,
                    !.calls[i].pc = "done"]} :
           preloader' = IF preloader.calls[i].kind = "load"
                        THEN loadBundle(p, i) ELSE p
    /\ UNCHANGED <<layoutVars, fsc, sounds>>

\* the promise of Assets.loadBundle is fulfilled: onProgress(100)
BundleLoaded(i) ==
    /\ preloader.calls[i].pc = "loadBundle"
    /\ preloader' = [preloader EXCEPT !.calls[i].pc = "done"]
    /\ UNCHANGED <<layoutVars, fsc, sounds>>

NextPreload ==
    \/ Load
    \/ \E i \in 1..(MaxLoads + 1) :
           i <= Len(preloader.calls) /\ InitResolves(i)
    \/ \E i \in 1..(MaxLoads + 1) :
           i <= Len(preloader.calls) /\ BundleLoaded(i)

SpecPreload == InitPreload /\ [][NextPreload]_vars

\* C38: one Preloader calls Assets.init at most once, however load() calls
\* fall between the steps of the constructor's init(), and no bundle load
\* starts before an initialisation of the asset system has finished
C38_InitOnceAndNoEarlyLoad ==
    /\ preloader.inits <= 1
    /\ ~preloader.early

(***************************************************************************)
(* The Sounds controller and the global mute switch of the audio library   *)
(* (Howler.mute).  The settings keep the three mute flags, and one effect  *)
(* and one piece of music can be played, each a sound with its own mute    *)
(* flag; volumes and skins have no part in muting.                         *)
(***************************************************************************)
\* the settings a caller can pass: any of the three flags, true or false
Partials == UNION {[keys -> BOOLEAN] :
                      keys \in SUBSET {"muted", "fxMuted", "musicMuted"}}

\* {...this.settings, ...settings}
merge(settings, given) ==
    [k \in DOMAIN settings |-> IF k \in DOMAIN given THEN given[k]
                               ELSE settings[k]]

\* mute(): Howler.mute(true)
mute(s) == [s EXCEPT !.howlerMuted = TRUE]

\* unmute(): nothing before a user interaction, before init() or when the
\* settings are muted, else Howler.mute(false)
unmute(s) ==
    IF ~s.userInteraction \/ ~s.initialized \/ s.settings.muted THEN s
    ELSE [s EXCEPT !.howlerMuted = FALSE]

\* playSounds()
playSounds(s) ==
    IF ~s.userInteraction \/ ~s.initialized THEN s ELSE unmute(s)

\* init(pixiManifest, settings?)
soundsInit(s, given) ==
    playSounds([s EXCEPT !.settings = merge(@, given), !.initialized = TRUE])

\* onUserInteraction()
onUserInteraction(s) == playSounds([s EXCEPT !.userInteraction = TRUE])

\* muteFX() and unmuteFX(), muteMusic() and unmuteMusic(): the flag of the
\* settings and the flag of every sound of the kind
muteEach(sound, muted) == [i \in DOMAIN sound |-> muted]

\* updateSettings(settings)
updateSettings(s, given) ==
    CHOOSE after \in
        {[(IF m.settings.muted THEN mute(m) ELSE unmute(m)) EXCEPT
             !.fxSounds = muteEach(@, m.settings.fxMuted),
             !.musicSounds = muteEach(@, m.settings.musicMuted)] :
            m \in {[s EXCEPT !.settings = merge(@, given)]}} : TRUE

\* playFX(fx) for the one effect: nothing before a user interaction or
\* before init(); the sound is played again when it exists, else made with
\* mute: this.settings.fxMuted
playFX(s) ==
    IF ~s.userInteraction \/ ~s.initialized THEN s
    ELSE IF s.fxSounds # <<>> THEN s
    ELSE [s EXCEPT !.fxSounds = <<s.settings.fxMuted>>]

\* playMusic(music) for the one piece of music: played again when it
\* exists; not found before init() has read the sound names of the manifest,
\* else made with mute: this.settings.musicMuted
playMusic(s) ==
    IF s.musicSounds # <<>> \/ ~s.initialized THEN s
    ELSE [s EXCEPT !.musicSounds = <<s.settings.musicMuted>>]

\* onVisibilityChange()
onVisibilityChange(s) ==
    IF s.hidden THEN mute(s)
    ELSE IF ~s.settings.muted THEN unmute(s) ELSE s

SoundsInit(given) ==
    /\ sounds' = soundsInit(sounds, given)
    /\ UNCHANGED <<layoutVars, fsc, preloader>>

UpdateSettings(given) ==
    /\ sounds' = updateSettings(sounds, given)
    /\ UNCHANGED <<layoutVars, fsc, preloader>>

OnUserInteraction ==
    /\ sounds' = onUserInteraction(sounds)
    /\ UNCHANGED <<layoutVars, fsc, preloader>>

\* the document is hidden or shown again: the visibilitychange listener
VisibilityChange ==
    /\ sounds' = onVisibilityChange([sounds EXCEPT !.hidden = ~@])
    /\ UNCHANGED <<layoutVars, fsc, preloader>>

PlayFX ==
    /\ sounds' = playFX(sounds)
    /\ UNCHANGED <<layoutVars, fsc, preloader>>

PlayMusic ==
    /\ sounds' = playMusic(sounds)
    /\ UNCHANGED <<layoutVars, fsc, preloader>>

Mute ==
    /\ sounds' = mute(sounds)
    /\ UNCHANGED <<layoutVars, fsc, preloader>>

Unmute ==
    /\ sounds' = unmute(sounds)
    /\ UNCHANGED <<layoutVars, fsc, preloader>>

NextSounds ==
    \/ \E given \in Partials : SoundsInit(given)
    \/ \E given \in Partials : UpdateSettings(given)
    \/ OnUserInteraction
    \/ VisibilityChange
    \/ PlayFX
    \/ PlayMusic
    \/ Mute
    \/ Unmute

SpecSounds == Init /\ [][NextSounds]_vars

\* C39: in every state the calls on Sounds can reach, the global audio is
\* un-muted only if a user interaction has occurred, init has been called
\* and settings.muted is false
C39_UnmutedOnlyWhenAllowed ==
    ~sounds.howlerMuted =>
        sounds.userInteraction /\ sounds.initialized /\ ~sounds.settings.muted

====
